---- MODULE Spec2Model ----
(***************************************************************************)
(* HackFind: the waterfall scraping orchestrator, the normalizer's         *)
(* field rules, the SQLite store, the request loops of the strategies and *)
(* the status derivations of the server (scrapers/base_scraper.py,        *)
(* scrapers/http_scraper.py, scrapers/browser_scraper.py,                  *)
(* utils/data_normalizer.py, database/db_manager.py, main.py, server.py,   *)
(* scrape_all.py).                                                         *)
(*                                                                         *)
(* Representation.                                                         *)
(*  - A Python str that the code inspects character by character (url,     *)
(*    title) is a sequence of symbols; the literal "utm_" is one symbol.   *)
(*  - Python None is the string NoneVal; a value that is neither None nor  *)
(*    a str (a JSON object in a raw payload, such as a JSON-LD image or an *)
(*    API item's mode, which the strategies pass through) is ObjVal.       *)
(*  - A date column holds an ISO date, written as the integer YYYYMMDD     *)
(*    (same order as the text), or NullDate for SQL NULL.                  *)
(*  - md5(...).hexdigest()[:16] is modelled as injective: the id is the    *)
(*    hashed string itself, so hash collisions are outside the model.      *)
(*  - The events table is the sequence of its rows in rowid order.         *)
(*  - Time is in hours, except in the request and retry loops (seconds).  *)
(***************************************************************************)
EXTENDS Integers, Sequences, FiniteSets, TLC

VARIABLES
    events,     \* table events: rows in rowid order
    meta,       \* table scrape_metadata: source -> row, for the sources that have one
    now,        \* datetime.now(), in hours
    pc,         \* position of scrape_site: "idle" | "start" | "chain" | "finish" | "returned"
    cur,        \* locals of the running scrape(): site, force, fresh, idx, events, error
    calls,      \* log: the strategies the running scrape() has invoked, and what each gave
    ret,        \* how the running scrape() ended and what it returned
    batch,      \* HackFind.scrape_all: site_keys, loop index, results, state
    stored_at,  \* history: source -> time of the last scrape() that stored an event
    app         \* a library function applied on its own: [fn, arg, res]

vars == <<events, meta, now, pc, cur, calls, ret, batch, stored_at, app>>

----------------------------------------------------------------------------
(* Bounds of the model *)

\* the clock stops advancing at MaxNow
MaxNow == 9
\* one step of the clock, in hours
TickHours == 3
\* number of items of the large listing a strategy may return
BulkLen == 51
\* the dates handed to a library function lie at most this many days after DayZero
MaxDayOffset == 4

----------------------------------------------------------------------------
(* Python values *)

NoneVal == "<None>"
ObjVal == "<object>"
NullDate == 0

\* datetime.now().date() at time 0, as YYYYMMDD
DayZero == 20260210
\* the hour of the day at time 0
HourZero == 21

\* datetime.now().date() at time t
Today(t) == DayZero + (t + HourZero) \div 24

\* Python truthiness of a scalar field value
Truthy(v) == v # NoneVal /\ v # ""

\* a or b
PyOr(a, b) == IF Truthy(a) THEN a ELSE b

\* dict.get(key, default)
Get(d, key, default) == IF key \in DOMAIN d THEN d[key] ELSE default

----------------------------------------------------------------------------
(* Raw payloads *)

\* a raw 'date' value: absent, an ISO date, or text no format matches
NoDate == [fmt |-> "none", day |-> 0]
Iso(day) == [fmt |-> "iso", day |-> day]
JunkDate == [fmt |-> "junk", day |-> 0]
\* a year-less date text such as "February 15" or "Feb 15", day written MMDD
MonthDay(mmdd) == [fmt |-> "monthday", day |-> mmdd]
\* a range text such as "Feb 15 - Feb 17, 2026" (first day YYYYMMDD) or
\* "Feb 15 - Feb 17" (first day MMDD)
RangeFrom(day) == [fmt |-> "range", day |-> day]

Raw(t, u, d, o, i, m) ==
    [title |-> t, url |-> u, date |-> d, organizer |-> o, image |-> i, mode |-> m]

\* a raw 'tags' or 'themes' value: None, a list of strings, one delimited string,
\* or a non-zero number (a count where a list was expected)
NoList == [kind |-> "none", items |-> << >>]
ListOf(items) == [kind |-> "list", items |-> items]
StrOf(text) == [kind |-> "str", items |-> text]
NumVal == [kind |-> "num", items |-> << >>]

\* a payload with 'tags' and 'themes' keys
WithLists(raw, tags, themes) ==
    [f \in DOMAIN raw \cup {"tags", "themes"} |->
        IF f = "tags" THEN tags ELSE IF f = "themes" THEN themes ELSE raw[f]]

UrlA == <<"x">>
UrlAutm == <<"x", "?", "utm_", "s">>
UrlAq == <<"x", "?">>
UrlAmid == <<"x", "?", "q", "&", "utm_", "s">>
UrlAkeep == <<"x", "?", "q">>
UrlB == <<"y">>
TitleT == <<"t">>

\* the k-th item of a large listing
BulkItem(k) ==
    Raw(<<"b", ToString(k)>>, <<"x", "/", ToString(k)>>, Iso(20260100 + k), NoneVal, NoneVal, NoneVal)

\* the event containers of an HTML listing page, as _parse_single_event reads
\* them: one whose link is missing (no 'url' key, '' to the normalizer), one
\* whose title is empty, one that is complete
PageContainers ==
    << Raw(TitleT, << >>, Iso(20260215), NoneVal, NoneVal, NoneVal),
       Raw(<< >>, UrlB, Iso(20260215), NoneVal, NoneVal, NoneVal),
       Raw(TitleT, UrlA, Iso(20260215), NoneVal, NoneVal, NoneVal) >>

RECURSIVE ParseEvents(_)
\* HttpScraper._parse_events: if event and event.get('title'): events.append(event)
ParseEvents(containers) ==
    IF containers = << >> THEN << >>
    ELSE (IF Head(containers).title # << >> THEN <<Head(containers)>> ELSE << >>)
            \o ParseEvents(Tail(containers))

\* the lists a strategy may return, by name
Feed(name) ==
    CASE name = "one"      -> << Raw(TitleT, UrlA, Iso(20260215), NoneVal, NoneVal, NoneVal) >>
      [] name = "rich"     -> << Raw(TitleT, UrlA, Iso(20260301), "acme", "img", "online") >>
      [] name = "badmode"  -> << Raw(TitleT, UrlA, Iso(20260215), NoneVal, NoneVal, NoneVal),
                                 Raw(TitleT, UrlB, Iso(20260215), NoneVal, NoneVal, ObjVal) >>
      [] name = "badimage" -> << Raw(TitleT, UrlA, Iso(20260215), NoneVal, NoneVal, NoneVal),
                                 Raw(TitleT, UrlB, Iso(20260215), NoneVal, ObjVal, NoneVal) >>
      [] name = "solo"     -> << Raw(TitleT, UrlA, NoDate, "org", NoneVal, NoneVal) >>
      [] name = "bulk"     -> [k \in 1..BulkLen |-> BulkItem(k)]
      [] name = "page"     -> ParseEvents(PageContainers)
      [] name = "past"     -> << Raw(TitleT, UrlB, Iso(DayZero - 5), NoneVal, NoneVal, NoneVal) >>
      [] name = "soon"     -> << Raw(TitleT, UrlA, Iso(DayZero + 1), NoneVal, NoneVal, NoneVal) >>
      [] name = "empty"    -> << >>

----------------------------------------------------------------------------
(* utils/data_normalizer.py *)

RECURSIVE LStrip(_)
\* str.lstrip(): leading whitespace removed
LStrip(s) == IF s # << >> /\ Head(s) = " " THEN LStrip(Tail(s)) ELSE s

RECURSIVE RStripSet(_, _)
\* str.rstrip(chars): trailing symbols of the set removed
RStripSet(s, chars) ==
    IF s # << >> /\ s[Len(s)] \in chars THEN RStripSet(SubSeq(s, 1, Len(s) - 1), chars) ELSE s

\* str.strip()
Strip(s) == RStripSet(LStrip(s), {" "})

RECURSIVE CollapseWs(_)
\* re.sub(r'\s+', ' ', text)
CollapseWs(s) ==
    IF s = << >> THEN << >>
    ELSE IF Head(s) = " " THEN <<" ">> \o CollapseWs(LStrip(s))
    ELSE <<Head(s)>> \o CollapseWs(Tail(s))

\* DataNormalizer._normalize_text
NormalizeText(text) == IF text = << >> THEN << >> ELSE Strip(CollapseWs(text))

RECURSIVE EndOfNonAmp(_, _)
\* first position at or after i that holds "&", or Len(s) + 1: the end of a greedy [^&]+
EndOfNonAmp(s, i) == IF i > Len(s) \/ s[i] = "&" THEN i ELSE EndOfNonAmp(s, i + 1)

\* <lead>utm_[^&]+ matches at position i
UtmAt(s, i, lead) ==
    /\ i + 2 <= Len(s)
    /\ s[i] = lead
    /\ s[i + 1] = "utm_"
    /\ s[i + 2] # "&"

RECURSIVE SubQuestionUtm(_, _)
\* re.sub(r'\?utm_[^&]+&?', '?', url), from position i on
SubQuestionUtm(s, i) ==
    IF i > Len(s) THEN << >>
    ELSE IF UtmAt(s, i, "?")
         THEN LET j == EndOfNonAmp(s, i + 2)
                  k == IF j <= Len(s) THEN j + 1 ELSE j
              IN  <<"?">> \o SubQuestionUtm(s, k)
         ELSE <<s[i]>> \o SubQuestionUtm(s, i + 1)

RECURSIVE SubAmpUtm(_, _)
\* re.sub(r'&utm_[^&]+', '', url), from position i on
SubAmpUtm(s, i) ==
    IF i > Len(s) THEN << >>
    ELSE IF UtmAt(s, i, "&") THEN SubAmpUtm(s, EndOfNonAmp(s, i + 2))
         ELSE <<s[i]>> \o SubAmpUtm(s, i + 1)

\* DataNormalizer._normalize_url
NormalizeUrl(url) ==
    IF url = << >> THEN << >>
    ELSE RStripSet(SubAmpUtm(SubQuestionUtm(Strip(url), 1), 1), {"?", "&"})

\* DataNormalizer._generate_id: the string that is hashed, raw url and raw title
GenerateId(source, data) == <<source, ":">> \o data.url \o <<":">> \o data.title

\* the hour of the day of datetime.now() at time t
HourOfDay(t) == (t + HourZero) % 24

\* strptime accepts the month and day (a year-less text is parsed in the year
\* 1900, which has no February 29)
ValidMonthDay(mmdd) ==
    LET m == mmdd \div 100
        dd == mmdd % 100
    IN  /\ m \in 1..12
        /\ dd >= 1
        /\ dd <= (IF m = 2 THEN 28 ELSE IF m \in {4, 6, 9, 11} THEN 30 ELSE 31)

\* _parse_date, a year-less format: parsed.replace(year=today.year), and the next
\* year if parsed < today, where parsed is midnight of the date and today is
\* datetime.now()
ResolveYear(mmdd, t) ==
    LET year == Today(t) \div 10000
        parsed == year * 10000 + mmdd
    IN  IF parsed < Today(t) \/ (parsed = Today(t) /\ 0 < HourOfDay(t))
        THEN (year + 1) * 10000 + mmdd
        ELSE parsed

\* DataNormalizer._parse_date at time t: None for a missing value, the date for
\* "%Y-%m-%d" text, the resolved date for a year-less text, the first day of a
\* range (in the current year when the range names none), None when no format
\* and no range pattern matches
ParseDate(d, t) ==
    IF d.fmt = "iso" THEN d.day
    ELSE IF d.fmt = "monthday"
         THEN (IF ValidMonthDay(d.day) THEN ResolveYear(d.day, t) ELSE NullDate)
    ELSE IF d.fmt = "range"
         THEN (IF ~ValidMonthDay(d.day % 10000) THEN NullDate
               ELSE IF d.day < 10000 THEN (Today(t) \div 10000) * 10000 + d.day
               ELSE d.day)
    ELSE NullDate

\* variant: an event that starts today is still upcoming
DetermineStatusLate(start, end, today) ==
    IF start.fmt # "iso" THEN "unknown"
    ELSE LET e == IF end.fmt = "iso" THEN end.day ELSE start.day
         IN  IF today <= start.day THEN "upcoming"
             ELSE IF today <= e THEN "ongoing"
             ELSE "ended"

\* DataNormalizer._determine_status, with today = datetime.now().date(); start and
\* end are date texts: nothing, "%Y-%m-%d", or text strptime raises ValueError on
DetermineStatus(start, end, today) ==
    IF start.fmt = "none" THEN "unknown"
    ELSE IF start.fmt # "iso" THEN "unknown"
    ELSE LET s == start.day
             e == IF end.fmt = "none" THEN s
                  ELSE IF end.fmt # "iso" THEN s
                  ELSE end.day
         IN  IF today < s THEN "upcoming"
             ELSE IF s <= today /\ today <= e THEN "ongoing"
             ELSE "ended"

\* a stored or parsed date as the text _determine_status is given
DateText(day) == IF day = NullDate THEN NoDate ELSE Iso(day)

\* the words of the texts that have letters: lower case, upper case, title case
Cased ==
    { [l |-> "online", u |-> "ONLINE", t |-> "Online"],
      [l |-> "virtual", u |-> "VIRTUAL", t |-> "Virtual"],
      [l |-> "remote", u |-> "REMOTE", t |-> "Remote"],
      [l |-> "hybrid", u |-> "HYBRID", t |-> "Hybrid"],
      [l |-> "worldwide", u |-> "WORLDWIDE", t |-> "Worldwide"],
      [l |-> "in-person", u |-> "IN-PERSON", t |-> "In-Person"],
      [l |-> "in", u |-> "IN", t |-> "In"],
      [l |-> "person", u |-> "PERSON", t |-> "Person"],
      [l |-> "cambridge", u |-> "CAMBRIDGE", t |-> "Cambridge"],
      [l |-> "ma", u |-> "MA", t |-> "Ma"],
      [l |-> "tbd", u |-> "TBD", t |-> "Tbd"],
      [l |-> "ai", u |-> "AI", t |-> "Ai"],
      [l |-> "ml", u |-> "ML", t |-> "Ml"],
      [l |-> "machine", u |-> "MACHINE", t |-> "Machine"],
      [l |-> "learning", u |-> "LEARNING", t |-> "Learning"],
      [l |-> "blockchain", u |-> "BLOCKCHAIN", t |-> "Blockchain"],
      [l |-> "web3", u |-> "WEB3", t |-> "Web3"],
      [l |-> "k", u |-> "K", t |-> "K"],
      [l |-> "m", u |-> "M", t |-> "M"] }

\* str.lower() and str.title(), symbol by symbol; a symbol without letters is kept
LowerSym(x) ==
    IF \E c \in Cased : x \in {c.l, c.u, c.t}
    THEN (CHOOSE c \in Cased : x \in {c.l, c.u, c.t}).l
    ELSE x
TitleSym(x) ==
    IF \E c \in Cased : x \in {c.l, c.u, c.t}
    THEN (CHOOSE c \in Cased : x \in {c.l, c.u, c.t}).t
    ELSE x
Lower(text) == [i \in 1..Len(text) |-> LowerSym(text[i])]
Title(text) == [i \in 1..Len(text) |-> TitleSym(text[i])]

\* self.tag_mappings, the entries for the words above
TagMappings ==
    { [key |-> <<"machine", " ", "learning">>, tag |-> <<"ML">>],
      [key |-> <<"blockchain">>, tag |-> <<"Web3">>] }

RECURSIVE SplitTags(_, _)
\* re.split(r'[,;|]', tags): acc is the piece being read
SplitTags(text, acc) ==
    IF text = << >> THEN <<acc>>
    ELSE IF Head(text) \in {",", ";", "|"} THEN <<acc>> \o SplitTags(Tail(text), << >>)
    ELSE SplitTags(Tail(text), Append(acc, Head(text)))

\* _normalize_tags, the body of the loop: the tag as it is displayed
DisplayTag(raw) ==
    LET tag == Lower(Strip(raw))
    IN  IF \E m \in TagMappings : m.key = tag
        THEN (CHOOSE m \in TagMappings : m.key = tag).tag
        ELSE Title(tag)

RECURSIVE DedupeTags(_, _)
\* _normalize_tags, the loop: a tag is appended unless tag.lower() is in seen
DedupeTags(tags, normalized) ==
    IF tags = << >> THEN normalized
    ELSE LET tag == DisplayTag(Head(tags))
             seen == {Lower(normalized[i]) : i \in 1..Len(normalized)}
         IN  IF Lower(tag) \notin seen
             THEN DedupeTags(Tail(tags), Append(normalized, tag))
             ELSE DedupeTags(Tail(tags), normalized)

\* normalized[:10]
MaxTags == 10

\* DataNormalizer._normalize_tags, for a value it does not raise on
NormalizeTags(tags) ==
    IF tags.kind \in {"none", "num"} \/ tags.items = << >> THEN << >>
    ELSE LET list == IF tags.kind = "str" THEN SplitTags(tags.items, << >>) ELSE tags.items
             normalized == DedupeTags(list, << >>)
         IN  SubSeq(normalized, 1, IF Len(normalized) < MaxTags THEN Len(normalized) ELSE MaxTags)

\* an optional str: None, or the text
NoText == [none |-> TRUE, text |-> << >>]
Text(s) == [none |-> FALSE, text |-> s]

Digits == {ToString(d) : d \in 0..9}
DigitVal(c) == CHOOSE d \in 0..9 : ToString(d) = c

\* \w: the letters, digits and underscore of the prize texts
WordSyms == Digits \cup {"k", "K", "m", "M", "T", "B", "D", "U", "S", "_"}

RECURSIVE DigitsVal(_, _)
\* the number a run of digits denotes, after acc
DigitsVal(ds, acc) ==
    IF ds = << >> THEN acc ELSE DigitsVal(Tail(ds), 10 * acc + DigitVal(Head(ds)))

RECURSIVE DigitRunEnd(_, _)
\* the last position of the run of digits that starts at i, i - 1 when there is none
DigitRunEnd(s, i) ==
    IF i <= Len(s) /\ s[i] \in Digits THEN DigitRunEnd(s, i + 1) ELSE i - 1

\* re.search(r'[\d,]+\.?\d*', text) on a text without commas: [found, int, frac],
\* the digits before and after the point of the first match
NumericMatch(s) ==
    LET starts == {i \in 1..Len(s) : s[i] \in Digits}
    IN  IF starts = {} THEN [found |-> FALSE, int |-> << >>, frac |-> << >>]
        ELSE LET i == CHOOSE k \in starts : \A j \in starts : k <= j
                 j == DigitRunEnd(s, i)
                 point == j + 1 <= Len(s) /\ s[j + 1] = "."
             IN  [found |-> TRUE,
                  int |-> SubSeq(s, i, j),
                  frac |-> IF point THEN SubSeq(s, j + 2, DigitRunEnd(s, j + 2)) ELSE << >>]

\* float(...) of the match, in tenths; the prize texts have at most one digit
\* after the point
FloatTenths(m) ==
    10 * DigitsVal(m.int, 0) + (IF m.frac = << >> THEN 0 ELSE DigitVal(m.frac[1]))

\* re.search(r'\d<letter>\b', text.lower())
SuffixAfterDigit(s, letter) ==
    \E i \in 1..(Len(s) - 1) :
        /\ s[i] \in Digits
        /\ LowerSym(s[i + 1]) = letter
        /\ (i + 2 > Len(s) \/ s[i + 2] \notin WordSyms)

\* round(n / d) to the nearest integer, ties to the even one, as format() rounds
RoundHalfEven(n, d) ==
    LET q == n \div d
        r == n % d
    IN  IF 2 * r > d THEN q + 1
        ELSE IF 2 * r < d THEN q
        ELSE IF q % 2 = 0 THEN q ELSE q + 1

\* the display text of a value in tenths: f"${v/1000000:.1f}M", f"${v/1000:.0f}K"
\* or f"${v:.0f}"; a number is written as one symbol
PrizeDisplay(tenths) ==
    IF tenths >= 10 * 1000000
    THEN LET t == RoundHalfEven(tenths, 1000000)
         IN  <<"$", ToString(t \div 10), ".", ToString(t % 10), "M">>
    ELSE IF tenths >= 10 * 1000
    THEN <<"$", ToString(RoundHalfEven(tenths, 10 * 1000)), "K">>
    ELSE <<"$", ToString(RoundHalfEven(tenths, 10))>>

\* _normalize_prize: the factor of the k or m suffix
SuffixFactor(s) ==
    IF SuffixAfterDigit(s, "k") THEN 1000
    ELSE IF SuffixAfterDigit(s, "m") THEN 1000000
    ELSE 1

\* DataNormalizer._normalize_prize: [display, tenths], the display text and the
\* numeric value in tenths
NormalizePrize(prize) ==
    IF prize.none \/ prize.text = << >> THEN [display |-> NoText, tenths |-> 0]
    ELSE LET text == Strip(prize.text)
             m == NumericMatch(SelectSeq(text, LAMBDA c : c # ","))
         IN  IF ~m.found THEN [display |-> Text(text), tenths |-> 0]
             ELSE LET value == FloatTenths(m) * SuffixFactor(text)
                  IN  [display |-> Text(PrizeDisplay(value)), tenths |-> value]

\* (raw_data.get('mode') or '').lower() raises AttributeError on a non-str value
ModeRaises(data) == data.mode = ObjVal

\* kw in text: the keyword is a run of consecutive symbols of the text
Contains(text, kw) ==
    \E i \in 1..(Len(text) - Len(kw) + 1) : SubSeq(text, i, i + Len(kw) - 1) = kw

\* any(kw in text for kw in keywords)
ContainsAny(text, keywords) == \E kw \in keywords : Contains(text, kw)

\* self.online_keywords and self.in_person_keywords
OnlineKeywords ==
    { <<"online">>, <<"virtual">>, <<"remote">>, <<"worldwide">>, <<"global">>,
      <<"anywhere">>, <<"digital">>, <<"internet">>, <<"web-based">> }
InPersonKeywords ==
    { <<"in-person">>, <<"in", " ", "person">>, <<"onsite">>, <<"on-site">>, <<"offline">>,
      <<"physical">>, <<"venue">>, <<"campus">> }

\* _detect_mode: the keyword lists the explicit mode field is checked against
ExplicitOnline == { <<"online">>, <<"virtual">>, <<"remote">> }
ExplicitInPerson == { <<"in-person">>, <<"in", " ", "person">>, <<"onsite">> }

RECURSIVE ReplaceSym(_, _, _)
\* str.replace(old, new) for a one-symbol old
ReplaceSym(text, old, new) ==
    IF text = << >> THEN << >>
    ELSE (IF Head(text) = old THEN new ELSE <<Head(text)>>) \o ReplaceSym(Tail(text), old, new)

\* DataNormalizer._normalize_location
NormalizeLocation(location) ==
    IF location = << >> THEN << >>
    ELSE ReplaceSym(ReplaceSym(CollapseWs(Strip(location)),
                               "USA", <<"United", " ", "States">>),
                    "UK", <<"United", " ", "Kingdom">>)

\* variant: the free text is looked at before the explicit mode field
DetectModeFreeFirst(location, explicit, description) ==
    LET explicit_mode == Lower(explicit)
        text_to_check == Lower(location \o <<" ">> \o description)
        has_online == ContainsAny(text_to_check, OnlineKeywords)
        has_inperson == ContainsAny(text_to_check, InPersonKeywords)
    IN  IF has_online /\ has_inperson THEN "hybrid"
        ELSE IF has_online THEN "online"
        ELSE IF has_inperson THEN "in-person"
        ELSE IF Contains(explicit_mode, <<"hybrid">>) THEN "hybrid"
        ELSE IF ContainsAny(explicit_mode, ExplicitOnline) THEN "online"
        ELSE IF ContainsAny(explicit_mode, ExplicitInPerson) THEN "in-person"
        ELSE IF location # << >> THEN "in-person"
        ELSE "unknown"

\* DataNormalizer._detect_mode(location, raw_data), with explicit the text
\* raw_data.get('mode') or '' and description the text
\* raw_data.get('description') or ''
DetectModeText(location, explicit, description) ==
    LET explicit_mode == Lower(explicit)
        text_to_check == Lower(location \o <<" ">> \o description)
        has_online == ContainsAny(text_to_check, OnlineKeywords)
        has_inperson == ContainsAny(text_to_check, InPersonKeywords)
    IN  IF Contains(explicit_mode, <<"hybrid">>) THEN "hybrid"
        ELSE IF ContainsAny(explicit_mode, ExplicitOnline) THEN "online"
        ELSE IF ContainsAny(explicit_mode, ExplicitInPerson) THEN "in-person"
        ELSE IF has_online /\ has_inperson THEN "hybrid"
        ELSE IF has_online THEN "online"
        ELSE IF has_inperson
                \/ (location # << >>
                    /\ Lower(location) \notin {<<"online">>, <<"virtual">>, <<"remote">>})
             THEN "in-person"
        ELSE "unknown"

\* DataNormalizer._detect_mode for a payload: the mode field is one symbol
DetectMode(data) ==
    DetectModeText(NormalizeLocation(Get(data, "location", << >>)),
                   IF Truthy(data.mode) THEN <<data.mode>> ELSE << >>,
                   Get(data, "description", << >>))

\* _normalize_tags: 'for tag in tags' raises TypeError on a truthy value that is
\* neither a str nor iterable
TagsRaises(data) == Get(data, "tags", ListOf(<< >>)).kind = "num"

\* DataNormalizer.normalize raises (_detect_mode and _normalize_tags can, on
\* these payloads)
NormalizeRaises(data) == ModeRaises(data) \/ TagsRaises(data)

\* DataNormalizer.normalize: the HackathonEvent
Normalize(data, source, t) ==
    LET start_date == ParseDate(data.date, t)
        end_date == ParseDate(Get(data, "end_date", NoDate), t)
    IN   [id         |-> GenerateId(source, data),
          source     |-> source,
          title      |-> NormalizeText(data.title),
          url        |-> NormalizeUrl(data.url),
          start_date |-> start_date,
          end_date   |-> end_date,
          mode       |-> DetectMode(data),
          tags       |-> NormalizeTags(Get(data, "tags", ListOf(<< >>))),
          themes     |-> Get(data, "themes", ListOf(<< >>)),
          image_url  |-> PyOr(NoneVal, data.image),
          organizer  |-> data.organizer,
          status     |-> DetermineStatus(DateText(start_date), DateText(end_date), Today(t))]

\* the fields of the dataclass HackathonEvent
EventFields ==
    {"id", "source", "title", "url", "start_date", "end_date", "mode", "tags", "themes",
     "image_url", "organizer", "status"}

\* HackathonEvent.to_dict: asdict(self)
ToDict(ev) == [f \in EventFields |-> ev[f]]

\* HackathonEvent.from_dict: cls(**{k: v for k, v in data.items() if k in fields})
FromDict(d) == [f \in DOMAIN d \cap EventFields |-> d[f]]

\* normalize_events: the list comprehension over the raw events
NormalizeAll(raws, source, t) == [k \in 1..Len(raws) |-> Normalize(raws[k], source, t)]

\* normalize_events raises when normalize raises on any item
NormalizeAllRaises(raws) == \E k \in 1..Len(raws) : NormalizeRaises(raws[k])

----------------------------------------------------------------------------
(* database/db_manager.py *)

\* query_events: default page_size
PageSize == 50

\* sqlite3 cannot bind a value that is not None, int, float, str or bytes
BindRaises(ev) == ev.organizer = ObjVal \/ ev.image_url = ObjVal

\* variant: a plain INSERT that keeps the row already stored
InsertAlways(tbl, ev) == tbl \o <<ev>>

\* variant: the rows of the source are replaced by the new row
InsertOverSource(tbl, ev) == SelectSeq(tbl, LAMBDA r : r.source # ev.source) \o <<ev>>

RECURSIVE WithoutId(_, _)
\* the rows whose id is not the given one, in rowid order (the table is split in
\* halves to keep the recursion shallow)
WithoutId(tbl, id) ==
    IF tbl = << >> THEN << >>
    ELSE IF Len(tbl) = 1 THEN (IF tbl[1].id = id THEN << >> ELSE tbl)
    ELSE LET h == Len(tbl) \div 2
         IN  WithoutId(SubSeq(tbl, 1, h), id) \o WithoutId(SubSeq(tbl, h + 1, Len(tbl)), id)

\* INSERT OR REPLACE INTO events: the row with the same primary key is deleted and
\* the new row is inserted with a new, largest rowid
InsertOrReplace(tbl, ev) == WithoutId(tbl, ev.id) \o <<ev>>

\* DatabaseManager.save_event: the table after the call; on an exception the
\* transaction is rolled back and the table is as before
SaveEvent(tbl, ev) == IF BindRaises(ev) THEN tbl ELSE InsertOrReplace(tbl, ev)

\* INSERT OR REPLACE INTO scrape_metadata, last_scraped = datetime.now()
UpdateScrapeMetadata(m, source, count, success, error, t) ==
    [s \in DOMAIN m \cup {source} |->
        IF s = source
        THEN [last_scraped |-> t, event_count |-> count,
              success |-> success, error_message |-> error]
        ELSE m[s]]

\* index of the first event of the list save_event raises on, 0 when there is none
FirstBad(evs) ==
    IF \E k \in 1..Len(evs) : BindRaises(evs[k])
    THEN CHOOSE k \in 1..Len(evs) :
            BindRaises(evs[k]) /\ \A j \in 1..(k - 1) : ~BindRaises(evs[j])
    ELSE 0

RECURSIVE SaveAll(_, _)
\* the loop of save_events over a list on which save_event does not raise: the
\* calls in list order (the list is split in halves to keep the recursion shallow)
SaveAll(tbl, evs) ==
    IF evs = << >> THEN tbl
    ELSE IF Len(evs) = 1 THEN SaveEvent(tbl, evs[1])
    ELSE LET h == Len(evs) \div 2
             first == SaveAll(tbl, SubSeq(evs, 1, h))
         IN  IF Len(first) >= 0 THEN SaveAll(first, SubSeq(evs, h + 1, Len(evs))) ELSE first

\* DatabaseManager.save_events: [raised, events, meta]; an exception of save_event
\* leaves the events saved before it and skips update_scrape_metadata
SaveEvents(tbl, m, evs, source, t) ==
    LET bad == FirstBad(evs)
    IN  IF bad # 0
        THEN [raised |-> TRUE, events |-> SaveAll(tbl, SubSeq(evs, 1, bad - 1)), meta |-> m]
        ELSE [raised |-> FALSE, events |-> SaveAll(tbl, evs),
              meta |-> UpdateScrapeMetadata(m, source, Len(evs), TRUE, NoneVal, t)]

\* r placed after the rows of the sorted list whose start_date is not larger
InsertByStart(sorted, r) ==
    LET p == Cardinality({i \in 1..Len(sorted) : sorted[i].start_date <= r.start_date})
    IN  SubSeq(sorted, 1, p) \o <<r>> \o SubSeq(sorted, p + 1, Len(sorted))

RECURSIVE OrderByStart(_, _)
\* ORDER BY start_date ASC (NULL first), rows of equal start_date in rowid order:
\* the rows inserted one by one into acc (in halves, to keep the recursion shallow)
OrderByStart(rows, acc) ==
    IF rows = << >> THEN acc
    ELSE IF Len(rows) = 1 THEN InsertByStart(acc, rows[1])
    ELSE LET h == Len(rows) \div 2
             first == OrderByStart(SubSeq(rows, 1, h), acc)
         IN  IF Len(first) >= 0 THEN OrderByStart(SubSeq(rows, h + 1, Len(rows)), first)
             ELSE first

RECURSIVE WhereSource(_, _)
\* WHERE source = ?: the matching rows in rowid order
WhereSource(tbl, source) ==
    IF tbl = << >> THEN << >>
    ELSE IF Len(tbl) = 1 THEN (IF tbl[1].source = source THEN tbl ELSE << >>)
    ELSE LET h == Len(tbl) \div 2
         IN  WhereSource(SubSeq(tbl, 1, h), source)
                \o WhereSource(SubSeq(tbl, h + 1, Len(tbl)), source)

\* DatabaseManager.query_events(source=source): the first page and the total count
QueryEvents(tbl, source) ==
    LET matching == WhereSource(tbl, source)
        sorted == OrderByStart(matching, << >>)
        offset == (1 - 1) * PageSize
        last == IF Len(sorted) < offset + PageSize THEN Len(sorted) ELSE offset + PageSize
    IN  [events |-> SubSeq(sorted, offset + 1, last), total |-> Len(matching)]

\* DatabaseManager._row_to_event
RowToEvent(row) == [f \in EventFields |-> row[f]]

\* DatabaseManager.get_event: the event in a list, or the empty list for None
GetEvent(tbl, id) ==
    LET hits == {i \in 1..Len(tbl) : tbl[i].id = id}
    IN  IF hits = {} THEN << >> ELSE <<RowToEvent(tbl[CHOOSE i \in hits : TRUE])>>

\* DatabaseManager.delete_event: DELETE FROM events WHERE id = ?
DeleteEvent(tbl, id) == WithoutId(tbl, id)

\* delete_old_events: the row matches
\* end_date < ? OR (end_date IS NULL AND start_date < ?); a comparison with NULL
\* is not true
IsOld(row, cutoff) ==
    \/ row.end_date # NullDate /\ row.end_date < cutoff
    \/ row.end_date = NullDate /\ row.start_date # NullDate /\ row.start_date < cutoff

\* DatabaseManager.delete_old_events(days) at time t: the table after it;
\* cutoff = (datetime.now() - timedelta(days=days)).strftime("%Y-%m-%d")
DeleteOldEvents(tbl, days, t) ==
    LET cutoff == Today(t) - days
    IN  SelectSeq(tbl, LAMBDA r : ~IsOld(r, cutoff))

RECURSIVE WhereStatus(_, _)
\* WHERE status = ?: the matching rows in rowid order
WhereStatus(tbl, status) ==
    IF tbl = << >> THEN << >>
    ELSE IF Len(tbl) = 1 THEN (IF tbl[1].status = status THEN tbl ELSE << >>)
    ELSE LET h == Len(tbl) \div 2
         IN  WhereStatus(SubSeq(tbl, 1, h), status)
                \o WhereStatus(SubSeq(tbl, h + 1, Len(tbl)), status)

\* DatabaseManager.query_events(status=status): the events of the first page
QueryEventsByStatus(tbl, status) ==
    LET sorted == OrderByStart(WhereStatus(tbl, status), << >>)
        last == IF Len(sorted) < PageSize THEN Len(sorted) ELSE PageSize
    IN  [k \in 1..last |-> RowToEvent(sorted[k])]

\* variant: an age equal to the limit still counts as fresh
IsCacheFreshInclusive(m, source, max_age_hours, t) ==
    source \in DOMAIN m /\ (t - m[source].last_scraped) * 3600 <= max_age_hours * 3600

\* DatabaseManager.is_cache_fresh
IsCacheFresh(m, source, max_age_hours, t) ==
    IF source \notin DOMAIN m THEN FALSE
    ELSE LET age == t - m[source].last_scraped
         IN  age * 3600 < max_age_hours * 3600

\* DatabaseManager.get_stale_sources at time t: the sources of the rows of
\* scrape_metadata with last_scraped < cutoff (no row has a NULL last_scraped:
\* update_scrape_metadata always writes it)
GetStaleSources(m, max_age_hours, t) ==
    LET cutoff == t - max_age_hours
    IN  {source \in DOMAIN m : m[source].last_scraped < cutoff}

----------------------------------------------------------------------------
(* scrapers/base_scraper.py *)

\* BaseScraper.__init__: self.cache_ttl_hours
CacheTtlHours == 6

Sites == {"mlh", "devpost", "dorahacks", "ghost"}

\* config/websites.json, the entries the orchestrator reads
Config(site) ==
    CASE site = "mlh"       -> [short_name |-> "MLH", method |-> "http",
                                api_hints |-> FALSE, api_config |-> FALSE]
      [] site = "devpost"   -> [short_name |-> "Devpost", method |-> "api",
                                api_hints |-> FALSE, api_config |-> FALSE]
      [] site = "dorahacks" -> [short_name |-> "DoraHacks", method |-> "browser",
                                api_hints |-> TRUE, api_config |-> FALSE]
      [] site = "ghost"     -> [short_name |-> "Ghost", method |-> "rss",
                                api_hints |-> FALSE, api_config |-> FALSE]

\* ScraperFactory.get_scraper raises ValueError("Unknown method: ...")
GetScraperRaises(site) == Config(site).method \notin {"http", "browser", "api"}

\* BaseScraper._get_method_sequence
MethodSequence(cfg) ==
    (IF cfg.method = "api" \/ cfg.api_hints \/ cfg.api_config THEN <<"api">> ELSE << >>)
        \o <<"http", "browser">>

\* what one strategy call can do: raise ScrapingError or another Exception, or
\* return a list (a feed, by name)
Failures == {"ScrapingError", "Exception"}

\* scrape: if not force_refresh and self._is_cache_fresh()
UseCache(force, fresh) == ~force /\ fresh

\* BaseScraper._get_cached_events: [e.to_dict() for e in events]
GetCachedEvents(tbl, source) ==
    LET page == QueryEvents(tbl, source).events
    IN  [k \in 1..Len(page) |-> ToDict(RowToEvent(page[k]))]

\* BaseScraper._normalize_events: [e.to_dict() for e in normalize_events(...)]
NormalizeEvents(raws, source, t) ==
    LET evs == NormalizeAll(raws, source, t)
    IN  [k \in 1..Len(evs) |-> ToDict(evs[k])]

\* BaseScraper._save_to_cache: save_events of [HackathonEvent.from_dict(e) ...];
\* [raised, events, meta]
SaveToCache(tbl, m, normalized, source, t) ==
    SaveEvents(tbl, m, [k \in 1..Len(normalized) |-> FromDict(normalized[k])], source, t)

\* variant: the else branch raises the last error of the chain
ExhaustedRaisesError(error) == error # NoneVal

\* variant: a loop body without the break
BreaksNever(out) == FALSE

\* scrape, the loop body: events = method(); if events: break
Breaks(out) == out \notin Failures /\ Feed(out) # << >>

\* scrape, one iteration of the loop over _get_method_sequence(); idx 0: the loop is left
ChainNext(c, out) ==
    LET seq == MethodSequence(Config(c.site))
        c1 == IF out \in Failures THEN [c EXCEPT !.error = out] ELSE [c EXCEPT !.evts = out]
    IN  IF Breaks(out) \/ c.idx = Len(seq)
        THEN [c1 EXCEPT !.idx = 0]
        ELSE [c1 EXCEPT !.idx = c.idx + 1]

\* scrape, the else branch of step 3: the error is logged and [] is returned
ExhaustedRaises(error) == FALSE

\* variant: a scrape without events records the attempt in the metadata
ScrapeFinishStamps(c, tbl, m, t) ==
    [kind |-> "returned", events |-> << >>, table |-> tbl,
     meta |-> UpdateScrapeMetadata(m, Config(c.site).short_name, 0, TRUE, NoneVal, t)]

\* scrape, step 3: [kind, events (returned), table, meta]
ScrapeFinish(c, tbl, m, t) ==
    LET source == Config(c.site).short_name
        raws == Feed(c.evts)
    IN  IF raws # << >>
        THEN IF NormalizeAllRaises(raws)
             THEN [kind |-> "raised", events |-> << >>, table |-> tbl, meta |-> m]
             ELSE LET normalized == NormalizeEvents(raws, source, t)
                      saved == SaveToCache(tbl, m, normalized, source, t)
                  IN  IF saved.raised
                      THEN [kind |-> "raised", events |-> << >>,
                            table |-> saved.events, meta |-> saved.meta]
                      ELSE [kind |-> "returned", events |-> normalized,
                            table |-> saved.events, meta |-> saved.meta]
        ELSE IF ExhaustedRaises(c.error)
             THEN [kind |-> "raised", events |-> << >>, table |-> tbl, meta |-> m]
             ELSE [kind |-> "returned", events |-> << >>, table |-> tbl, meta |-> m]

----------------------------------------------------------------------------
(* main.py *)

\* variant: scrape_site without its try/except
ScrapeSiteReturnBare(kind, evs) ==
    [escaped |-> kind # "returned", count |-> IF kind = "returned" THEN Len(evs) ELSE 0]

\* HackFind.scrape_site: try: ... return len(events); except Exception: return 0.
\* [escaped, count]: whether an exception leaves scrape_site, and the value returned
ScrapeSiteReturn(kind, evs) ==
    IF kind = "returned" THEN [escaped |-> FALSE, count |-> Len(evs)]
    ELSE [escaped |-> FALSE, count |-> 0]

-----------------------------------------------------------------------------
(* server.py *)

\* recalculate_status(event_dict), with today = datetime.now().date(): the
\* status it writes; a ValueError of either strptime gives 'unknown'
RecalculateStatus(start, end, today) ==
    IF start.fmt = "none" THEN "unknown"
    ELSE IF start.fmt # "iso" THEN "unknown"
    ELSE IF end.fmt # "none" /\ end.fmt # "iso" THEN "unknown"
    ELSE LET s == start.day
             e == IF end.fmt = "none" THEN s ELSE end.day
         IN  IF today < s THEN "upcoming"
             ELSE IF s <= today /\ today <= e THEN "ongoing"
             ELSE "ended"

\* get_all_events_cached, the status derived in the loop over the events:
\* s_date is None without a start_date, e_date falls back to s_date, any
\* exception gives 'unknown'
CachedStatus(start, end, today) ==
    IF start.fmt \notin {"none", "iso"} THEN "unknown"
    ELSE IF end.fmt \notin {"none", "iso"} THEN "unknown"
    ELSE LET has_s == start.fmt = "iso"
             has_e == end.fmt = "iso" \/ has_s
             e == IF end.fmt = "iso" THEN end.day ELSE start.day
         IN  IF has_s /\ start.day > today THEN "upcoming"
             ELSE IF has_s /\ has_e /\ start.day <= today /\ today <= e THEN "ongoing"
             ELSE "ended"

----------------------------------------------------------------------------
(* The state machine *)

NoScrape == [kind |-> "none", cached |-> FALSE, events |-> << >>, stored |-> 0]

NoCur ==
    [site |-> "", force |-> FALSE, fresh |-> FALSE, idx |-> 0, evts |-> "empty",
     error |-> NoneVal]

NoBatch == [state |-> "off", keys |-> << >>, i |-> 0, force |-> FALSE, results |-> << >>]

NoApp == [fn |-> "none"]

Init ==
    /\ events = << >>
    /\ meta = << >>
    /\ now = 0
    /\ pc = "idle"
    /\ cur = NoCur
    /\ calls = << >>
    /\ ret = NoScrape
    /\ batch = NoBatch
    /\ stored_at = << >>
    /\ app = NoApp

\* time passes
Tick ==
    /\ now + TickHours <= MaxNow
    /\ now' = now + TickHours
    /\ UNCHANGED <<events, meta, pc, cur, calls, ret, batch, stored_at, app>>

\* a script: db.save_event(normalizer.normalize(raw, source)); an exception ends the
\* script and leaves the table as it was
ScriptSave(s) ==
    /\ pc = "idle"
    /\ batch.state = "off"
    /\ events' = IF NormalizeRaises(s.raw) THEN events
                 ELSE SaveEvent(events, Normalize(s.raw, s.source, now))
    /\ UNCHANGED <<meta, now, pc, cur, calls, ret, batch, stored_at, app>>

\* scrape_site(site, force) is entered
Enter(site, force) ==
    /\ pc' = "start"
    /\ cur' = [NoCur EXCEPT !.site = site, !.force = force]
    /\ calls' = << >>
    /\ ret' = NoScrape

\* python main.py scrape --site <site> [--force]
ScrapeSiteCommand(site, force) ==
    /\ pc = "idle"
    /\ batch.state = "off"
    /\ Enter(site, force)
    /\ UNCHANGED <<events, meta, now, batch, stored_at, app>>

\* scrape() ends: it returns evs, or raises
Leave(kind, evs, cached, stored) ==
    /\ pc' = "returned"
    /\ ret' = [kind |-> kind, cached |-> cached, events |-> evs, stored |-> stored]

\* get_scraper, then scrape up to the cache gate
Start ==
    /\ pc = "start"
    /\ LET source == Config(cur.site).short_name
           fresh == IsCacheFresh(meta, source, CacheTtlHours, now)
       IN  IF GetScraperRaises(cur.site)
           THEN /\ Leave("nocreate", << >>, FALSE, 0)
                /\ UNCHANGED cur
           ELSE IF UseCache(cur.force, fresh)
           THEN /\ Leave("returned", GetCachedEvents(events, source), TRUE, 0)
                /\ cur' = [cur EXCEPT !.fresh = TRUE]
           ELSE /\ pc' = "chain"
                /\ cur' = [cur EXCEPT !.idx = 1, !.fresh = ~cur.force /\ fresh]
                /\ UNCHANGED ret
    /\ UNCHANGED <<events, meta, now, calls, batch, stored_at, app>>

\* one strategy of the waterfall is invoked and raises or returns
TryMethod(out) ==
    /\ pc = "chain"
    /\ LET seq == MethodSequence(Config(cur.site))
           c == ChainNext(cur, out)
       IN  /\ calls' = Append(calls, [method |-> seq[cur.idx], out |-> out])
           /\ cur' = c
           /\ pc' = IF c.idx = 0 THEN "finish" ELSE "chain"
    /\ UNCHANGED <<events, meta, now, ret, batch, stored_at, app>>

\* step 3 of scrape: normalize, save, return
Finish ==
    /\ pc = "finish"
    /\ LET f == ScrapeFinish(cur, events, meta, now)
           source == Config(cur.site).short_name
       IN  /\ events' = f.table
           /\ meta' = f.meta
           /\ Leave(f.kind, f.events, FALSE, Len(f.table) - Len(events))
           /\ stored_at' = IF f.table = events THEN stored_at
                           ELSE [s \in DOMAIN stored_at \cup {source} |->
                                    IF s = source THEN now ELSE stored_at[s]]
    /\ UNCHANGED <<now, cur, calls, batch, app>>

\* scrape_site returns its count to the command line or to the loop of scrape_all
Return ==
    /\ pc = "returned"
    /\ LET r == ScrapeSiteReturn(ret.kind, ret.events)
       IN  batch' = IF batch.state # "running" THEN batch
                    ELSE IF r.escaped THEN [batch EXCEPT !.state = "aborted"]
                    ELSE [batch EXCEPT
                            !.results = [k \in DOMAIN batch.results \cup {cur.site} |->
                                            IF k = cur.site THEN r.count ELSE batch.results[k]],
                            !.i = batch.i + 1]
    /\ pc' = "idle"
    /\ cur' = NoCur
    /\ calls' = << >>
    /\ ret' = NoScrape
    /\ UNCHANGED <<events, meta, now, stored_at, app>>

\* python main.py scrape [--tier <tier>] [--force]: scrape_all is entered
ScrapeAllCommand(keys, force) ==
    /\ pc = "idle"
    /\ batch.state = "off"
    /\ batch' = [state |-> "running", keys |-> keys, i |-> 1, force |-> force,
                 results |-> << >>]
    /\ UNCHANGED <<events, meta, now, pc, cur, calls, ret, stored_at, app>>

\* scrape_all, the loop: the next site, or the summary and the return
ScrapeAllStep ==
    /\ pc = "idle"
    /\ batch.state = "running"
    /\ IF batch.i <= Len(batch.keys)
       THEN /\ Enter(batch.keys[batch.i], batch.force)
            /\ UNCHANGED batch
       ELSE /\ batch' = [batch EXCEPT !.state = "done"]
            /\ UNCHANGED <<pc, cur, calls, ret>>
    /\ UNCHANGED <<events, meta, now, stored_at, app>>

\* the command has ended
ScrapeAllExit ==
    /\ batch.state \in {"done", "aborted"}
    /\ batch' = NoBatch
    /\ UNCHANGED <<events, meta, now, pc, cur, calls, ret, stored_at, app>>

----------------------------------------------------------------------------
(* Single-site scraping: python main.py scrape --site <site> [--force] *)

\* the lists the strategies of a site return
FeedsOf(site) ==
    CASE site = "mlh"     -> {"one", "rich", "badimage", "badmode"}
      [] site = "devpost" -> {"solo"}
      [] OTHER            -> {}

Outcomes(site) == Failures \cup {"empty"} \cup FeedsOf(site)

Next ==
    \/ Tick
    \/ \E site \in Sites, force \in BOOLEAN : ScrapeSiteCommand(site, force)
    \/ Start
    \/ \E out \in Outcomes(cur.site) : TryMethod(out)
    \/ Finish
    \/ Return

Spec == Init /\ [][Next]_vars

----------------------------------------------------------------------------
(* A site with a long listing *)

ListingOutcomes == {"Exception", "empty", "bulk"}

NextListing ==
    \/ Tick
    \/ \E force \in BOOLEAN : ScrapeSiteCommand("devpost", force)
    \/ Start
    \/ \E out \in ListingOutcomes : TryMethod(out)
    \/ Finish
    \/ Return

SpecListing == Init /\ [][NextListing]_vars

----------------------------------------------------------------------------
(* The scripts that save straight to the database *)

\* payloads of the scripts: [source, raw]
ScriptSaves ==
    { [source |-> "MLH", raw |-> Raw(TitleT, UrlA, Iso(20260215), NoneVal, NoneVal, NoneVal)],
      [source |-> "MLH", raw |-> Raw(TitleT, UrlA, Iso(20260301), "acme", "img", "online")],
      [source |-> "MLH", raw |-> Raw(TitleT, UrlAutm, Iso(20260215), NoneVal, NoneVal, NoneVal)],
      [source |-> "MLH", raw |-> Raw(TitleT, UrlAq, Iso(20260215), NoneVal, NoneVal, NoneVal)],
      [source |-> "MLH", raw |-> Raw(TitleT, UrlAmid, JunkDate, NoneVal, NoneVal, "hybrid")],
      [source |-> "MLH", raw |-> Raw(TitleT, UrlAkeep, Iso(20260215), NoneVal, "img", NoneVal)],
      [source |-> "Devpost", raw |-> Raw(TitleT, UrlA, NoDate, "org", NoneVal, NoneVal)],
      [source |-> "Devpost", raw |-> Raw(TitleT, UrlB, NoDate, NoneVal, NoneVal, ObjVal)],
      [source |-> "Devpost", raw |-> Raw(TitleT, UrlB, NoDate, NoneVal, ObjVal, NoneVal)] }

NextSave == \E s \in ScriptSaves : ScriptSave(s)

SpecSave == Init /\ [][NextSave]_vars

----------------------------------------------------------------------------
(* The batch: python main.py scrape [--tier <tier>] [--force] *)

\* factory.available_sites, or the sites of a tier
KeyLists == {<<"mlh", "ghost", "devpost">>, <<"devpost", "mlh">>, <<"ghost">>}

BatchOutcomes(site) == {"Exception", "empty"} \cup (FeedsOf(site) \ {"rich"})

NextBatch ==
    \/ Tick
    \/ \E keys \in KeyLists, force \in BOOLEAN : ScrapeAllCommand(keys, force)
    \/ ScrapeAllStep
    \/ Start
    \/ \E out \in BatchOutcomes(cur.site) : TryMethod(out)
    \/ Finish
    \/ Return
    \/ ScrapeAllExit

SpecBatch == Init /\ [][NextBatch]_vars

----------------------------------------------------------------------------
(* A site whose listing is an HTML page *)

PageOutcomes == {"Exception", "empty", "page"}

NextPage ==
    \/ Tick
    \/ \E force \in BOOLEAN : ScrapeSiteCommand("mlh", force)
    \/ Start
    \/ \E out \in PageOutcomes : TryMethod(out)
    \/ Finish
    \/ Return

SpecPage == Init /\ [][NextPage]_vars

----------------------------------------------------------------------------
(* Reads of the store while the days pass *)

\* db.get_event(event_id)
GetEventCall(id) ==
    /\ pc = "idle"
    /\ app' = [fn |-> "get_event", arg |-> id, state |-> "returned",
               res |-> GetEvent(events, id)]
    /\ UNCHANGED <<events, meta, now, pc, cur, calls, ret, batch, stored_at>>

\* db.query_events(status=status)
QueryEventsCall(status) ==
    /\ pc = "idle"
    /\ app' = [fn |-> "query_events", arg |-> status, state |-> "returned",
               res |-> QueryEventsByStatus(events, status)]
    /\ UNCHANGED <<events, meta, now, pc, cur, calls, ret, batch, stored_at>>

ReadOutcomes == {"Exception", "soon"}

\* the ids asked for: of the event of the listing, and of no event
ReadIds == {GenerateId("MLH", Feed("soon")[1]), <<"MLH", ":", ":">>}

NextRead ==
    \/ Tick
    \/ \E force \in BOOLEAN : ScrapeSiteCommand("mlh", force)
    \/ Start
    \/ \E out \in ReadOutcomes : TryMethod(out)
    \/ Finish
    \/ Return
    \/ \E id \in ReadIds : GetEventCall(id)
    \/ \E status \in {"upcoming", "ongoing", "ended"} : QueryEventsCall(status)

SpecRead == Init /\ [][NextRead]_vars

----------------------------------------------------------------------------
(* Scrapes, saves and deletions on one store *)

\* db.delete_event(event_id); returns cursor.rowcount > 0
DeleteEventCall(id) ==
    /\ pc = "idle"
    /\ batch.state = "off"
    /\ events' = DeleteEvent(events, id)
    /\ app' = [fn |-> "delete_event", arg |-> id, state |-> "returned",
               res |-> Len(events) - Len(DeleteEvent(events, id)) > 0]
    /\ UNCHANGED <<meta, now, pc, cur, calls, ret, batch, stored_at>>

\* db.delete_old_events(days); returns cursor.rowcount
DeleteOldEventsCall(days) ==
    /\ pc = "idle"
    /\ batch.state = "off"
    /\ events' = DeleteOldEvents(events, days, now)
    /\ app' = [fn |-> "delete_old_events", arg |-> days, state |-> "returned",
               res |-> Len(events) - Len(DeleteOldEvents(events, days, now))]
    /\ UNCHANGED <<meta, now, pc, cur, calls, ret, batch, stored_at>>

\* the lists the strategies of a site return
StoreOutcomes(site) ==
    IF site = "mlh" THEN {"Exception", "one", "past", "badimage"} ELSE {"empty", "solo"}

\* the payloads of the scripts
StoreSaves == {s \in ScriptSaves : s.raw.url = UrlA /\ s.raw.organizer # NoneVal}

\* the ids delete_event is called with: of the events of the listings
StoreIds == {GenerateId("MLH", Feed(f)[1]) : f \in {"one", "past"}}

\* the ages delete_old_events is called with, in days
StoreDays == {0, 2}

NextStore ==
    \/ \E force \in BOOLEAN : ScrapeSiteCommand("mlh", force)
    \/ \E force \in BOOLEAN : ScrapeAllCommand(<<"ghost", "devpost">>, force)
    \/ ScrapeAllStep
    \/ Start
    \/ \E out \in StoreOutcomes(cur.site) : TryMethod(out)
    \/ Finish
    \/ Return
    \/ ScrapeAllExit
    \/ \E s \in StoreSaves : ScriptSave(s)
    \/ \E id \in StoreIds : DeleteEventCall(id)
    \/ \E days \in StoreDays : DeleteOldEventsCall(days)

SpecStore == Init /\ [][NextStore]_vars

----------------------------------------------------------------------------
(* The library functions, applied on their own *)

\* a list of n tags, all different
ManyTags(n) == [k \in 1..n |-> <<ToString(k)>>]

\* the 'tags' and 'themes' values of the payloads
TagLists ==
    { [tags |-> NumVal, themes |-> NoList],
      [tags |-> ListOf(<< <<"AI">>, <<"ai">>, <<"Machine", " ", "Learning">>, <<" ", "ml">>,
                          <<"blockchain">>, <<"Web3">> >>),
       themes |-> ListOf(<< <<"Web3">> >>)],
      [tags |-> StrOf(<<"ml", ",", " ", "AI", ";", "ML", "|", "ai">>), themes |-> ListOf(<< >>)],
      [tags |-> ListOf(ManyTags(MaxTags + 2)), themes |-> ListOf(<< >>)],
      [tags |-> NoList, themes |-> ListOf(<< <<"AI">>, <<"ai">> >>)],
      [tags |-> NoList, themes |-> ListOf(ManyTags(MaxTags + 1))] }

\* payloads handed to normalize: [source, raw]
NormalizeCalls ==
    ScriptSaves \cup
    { [source |-> "MLH",
       raw |-> WithLists(Raw(TitleT, UrlA, Iso(20260215), NoneVal, NoneVal, NoneVal),
                         lists.tags, lists.themes)] : lists \in TagLists }

\* the days a date argument may name
Days == {DayZero + k : k \in 0..MaxDayOffset}

\* the date texts handed to _determine_status
DateTexts == {NoDate, JunkDate} \cup {Iso(d) : d \in Days}

\* arguments of _determine_status, and the date of the call
StatusCalls == [start : DateTexts, end : DateTexts, today : Days]

\* the prize texts handed to _normalize_prize: None, texts without a number, and
\* a currency sign, a number and a suffix; the numbers with a million suffix are
\* small
PrizeCalls ==
    {NoText, Text(<< >>), Text(<<"T", "B", "D">>), Text(<<" ", "T", "B", "D", " ">>)}
    \cup {Text(sign \o number \o suffix) :
             sign \in {<< >>, <<"$">>},
             number \in {<<"5">>, <<"1", "0">>, <<"1", ".", "5">>, <<"2", ".", "5">>},
             suffix \in {<< >>, <<"k">>, <<"K">>, <<"m">>, <<"M">>, <<"K", "+">>, <<"k", "m">>,
                         <<" ", "k">>}}
    \cup {Text(sign \o number \o suffix) :
             sign \in {<< >>, <<"$">>},
             number \in {<<"5", "0", "0">>, <<"1", "5", "0", "0">>, <<"2", "5", "0", "0">>,
                         <<"1", "0", ",", "0", "0", "0">>, <<"9", "9", "9", ".", "5">>},
             suffix \in {<< >>, <<"k">>, <<" ", "U", "S", "D">>, <<"+">>}}

\* arguments of _detect_mode: the normalized location, the explicit mode text and
\* the description
ModeCalls ==
    [location : {<< >>, <<"Online">>, <<"Remote">>, <<"Worldwide">>, <<"TBD">>,
                 <<"Cambridge", ",", " ", "MA">>},
     explicit : {<< >>, <<"hybrid">>, <<"Hybrid", " ", "event">>, <<"online">>, <<"Virtual">>,
                 <<"In-Person">>, <<"in", " ", "person">>,
                 <<"online", " ", "and", " ", "in-person">>, <<"offline">>, <<"worldwide">>,
                 <<"tbd">>},
     description : {<< >>, <<"virtual">>, <<"on-site">>, <<"campus">>, <<"fun">>,
                    <<"virtual", " ", "and", " ", "on-site">>, <<"remote", "ly">>}]

\* the times at which _parse_date is called: 21:00, midnight, 03:00
ParseTimes == {0, 24 - HourZero, 27 - HourZero}

\* arguments of _parse_date, and the time of the call
ParseDateCalls ==
    [date : {NoDate, JunkDate, Iso(DayZero), RangeFrom(DayZero), RangeFrom(DayZero % 10000),
             MonthDay(229), MonthDay(1231)}
            \cup {MonthDay((DayZero % 10000) + k) : k \in (0 - 1)..MaxDayOffset},
     now : ParseTimes]

\* the calls: the function and its arguments
LibCalls ==
    {[fn |-> "normalize", arg |-> c, state |-> "called"] : c \in NormalizeCalls}
    \cup {[fn |-> "_determine_status", arg |-> c, state |-> "called"] : c \in StatusCalls}
    \cup {[fn |-> "_normalize_prize", arg |-> c, state |-> "called"] : c \in PrizeCalls}
    \cup {[fn |-> "_detect_mode", arg |-> c, state |-> "called"] : c \in ModeCalls}
    \cup {[fn |-> "_parse_date", arg |-> c, state |-> "called"] : c \in ParseDateCalls}
    \cup {[fn |-> "recalculate_status", arg |-> c, state |-> "called"] : c \in StatusCalls}
    \cup {[fn |-> "get_all_events_cached", arg |-> c, state |-> "called"] : c \in StatusCalls}

InitLib ==
    /\ events = << >>
    /\ meta = << >>
    /\ now = 0
    /\ pc = "idle"
    /\ cur = NoCur
    /\ calls = << >>
    /\ ret = NoScrape
    /\ batch = NoBatch
    /\ stored_at = << >>
    /\ app \in LibCalls

\* the call returns res
Returns(res) ==
    /\ app' = [fn |-> app.fn, arg |-> app.arg, state |-> "returned", res |-> res]
    /\ UNCHANGED <<events, meta, now, pc, cur, calls, ret, batch, stored_at>>

\* the call raises
Raises ==
    /\ app' = [app EXCEPT !.state = "raised"]
    /\ UNCHANGED <<events, meta, now, pc, cur, calls, ret, batch, stored_at>>

\* normalizer.normalize(raw, source)
ApplyNormalize ==
    /\ app.fn = "normalize"
    /\ app.state = "called"
    /\ IF NormalizeRaises(app.arg.raw) THEN Raises
       ELSE Returns(Normalize(app.arg.raw, app.arg.source, now))

\* normalizer._determine_status(start_date, end_date)
ApplyDetermineStatus ==
    /\ app.fn = "_determine_status"
    /\ app.state = "called"
    /\ Returns(DetermineStatus(app.arg.start, app.arg.end, app.arg.today))

\* normalizer._normalize_prize(prize)
ApplyNormalizePrize ==
    /\ app.fn = "_normalize_prize"
    /\ app.state = "called"
    /\ Returns(NormalizePrize(app.arg))

\* normalizer._detect_mode(location, raw_data)
ApplyDetectMode ==
    /\ app.fn = "_detect_mode"
    /\ app.state = "called"
    /\ Returns(DetectModeText(app.arg.location, app.arg.explicit, app.arg.description))

\* normalizer._parse_date(date_str)
ApplyParseDate ==
    /\ app.fn = "_parse_date"
    /\ app.state = "called"
    /\ Returns(ParseDate(app.arg.date, app.arg.now))

\* server.recalculate_status(event_dict) for an event with the dates of the call
ApplyRecalculateStatus ==
    /\ app.fn = "recalculate_status"
    /\ app.state = "called"
    /\ Returns(RecalculateStatus(app.arg.start, app.arg.end, app.arg.today))

\* server.get_all_events_cached() over a store with an event with the dates of
\* the call: the status of that event in the returned list
ApplyCachedStatus ==
    /\ app.fn = "get_all_events_cached"
    /\ app.state = "called"
    /\ Returns(CachedStatus(app.arg.start, app.arg.end, app.arg.today))

NextLib ==
    \/ ApplyNormalize
    \/ ApplyDetermineStatus
    \/ ApplyNormalizePrize
    \/ ApplyDetectMode
    \/ ApplyParseDate
    \/ ApplyRecalculateStatus
    \/ ApplyCachedStatus

SpecLib == InitLib /\ [][NextLib]_vars

-----------------------------------------------------------------------------
(* scrapers/http_scraper.py: the requests of the HTTP strategy *)
(* Time is in seconds here; app is the HttpScraper object and the position *)
(* of _scrape_with_http in its code.                                       *)

\* BaseScraper.request_delay, seconds between requests
RequestDelay == 2

\* the longest time a request takes before its response arrives, in seconds
MaxLatency == 1

\* _scrape_numbered_pages, _scrape_next_prev_pages: max_pages
MaxPages == 10

\* _try_api_endpoint: common_patterns
CommonPatterns ==
    <<"/api/hackathons", "/api/v1/hackathons", "/api/events", "/api/competitions",
      "/_next/data/hackathons.json">>

\* site configurations: api_hints.investigate, api_hints.possible_endpoint and
\* pagination.type
HttpConfigs ==
    [investigate : BOOLEAN, possible_endpoint : BOOLEAN,
     pagination : {"none", "numbered", "next_prev"}]

\* HttpScraper.__init__ (last_request_time = 0), and time.time() when
\* _scrape_with_http is entered
InitHttp ==
    /\ events = << >>
    /\ meta = << >>
    /\ now = 0
    /\ pc = "idle"
    /\ cur = NoCur
    /\ calls = << >>
    /\ ret = NoScrape
    /\ batch = NoBatch
    /\ stored_at = << >>
    /\ app \in [fn : {"_scrape_with_http"}, at : {"start"}, config : HttpConfigs,
                clock : {RequestDelay}, last_request_time : {0}, sent : {<< >>},
                k : {1}]

\* the scraper moves on to state a
HttpStep(a) ==
    /\ app' = a
    /\ UNCHANGED <<events, meta, now, pc, cur, calls, ret, batch, stored_at>>

\* the times of the two most recent requests, after one sent at time t
Sent(sent, t) == IF sent = << >> THEN <<t>> ELSE <<sent[Len(sent)], t>>

\* self.session.get(...) at the present time: the response arrives d seconds later
SessionGet(a, d) ==
    [a EXCEPT !.sent = Sent(a.sent, a.clock), !.clock = a.clock + d]

\* BaseScraper._respect_rate_limit
RespectRateLimit(a) ==
    LET elapsed == a.clock - a.last_request_time
        woke == IF elapsed < RequestDelay THEN a.clock + (RequestDelay - elapsed) ELSE a.clock
    IN  [a EXCEPT !.clock = woke, !.last_request_time = woke]

\* _scrape_with_http: the API is tried first when api_hints.investigate is set
HttpBegin ==
    /\ app.fn = "_scrape_with_http"
    /\ app.at = "start"
    /\ HttpStep([app EXCEPT !.at = IF ~app.config.investigate THEN "html"
                                   ELSE IF app.config.possible_endpoint THEN "hinted"
                                   ELSE "patterns"])

\* _try_api_endpoint: the hinted endpoint
ProbeHinted(d, found) ==
    /\ app.fn = "_scrape_with_http"
    /\ app.at = "hinted"
    /\ HttpStep([SessionGet(app, d) EXCEPT !.at = IF found THEN "done" ELSE "patterns"])

\* _try_api_endpoint: one of the common API patterns
ProbePattern(d, found) ==
    /\ app.fn = "_scrape_with_http"
    /\ app.at = "patterns"
    /\ HttpStep([SessionGet(app, d) EXCEPT
                    !.at = IF found THEN "done"
                           ELSE IF app.k = Len(CommonPatterns) THEN "html" ELSE "patterns",
                    !.k = IF ~found /\ app.k < Len(CommonPatterns) THEN app.k + 1 ELSE 1])

\* _scrape_single_page(self.url) when pagination.type is 'none'
SinglePage(d) ==
    /\ app.fn = "_scrape_with_http"
    /\ app.at = "html"
    /\ app.config.pagination = "none"
    /\ HttpStep([SessionGet(RespectRateLimit(app), d) EXCEPT !.at = "done"])

\* _scrape_numbered_pages and _scrape_next_prev_pages: one page; the loop goes
\* on while the page has events (and a next link) and max_pages is not reached
ScrapePage(d, more) ==
    /\ app.fn = "_scrape_with_http"
    /\ app.at = "html"
    /\ app.config.pagination \in {"numbered", "next_prev"}
    /\ HttpStep([SessionGet(RespectRateLimit(app), d) EXCEPT
                    !.at = IF more /\ app.k < MaxPages THEN "html" ELSE "done",
                    !.k = IF more /\ app.k < MaxPages THEN app.k + 1 ELSE app.k])

NextHttp ==
    \/ HttpBegin
    \/ \E d \in 0..MaxLatency, found \in BOOLEAN : ProbeHinted(d, found)
    \/ \E d \in 0..MaxLatency, found \in BOOLEAN : ProbePattern(d, found)
    \/ \E d \in 0..MaxLatency : SinglePage(d)
    \/ \E d \in 0..MaxLatency, more \in BOOLEAN : ScrapePage(d, more)

SpecHttp == InitHttp /\ [][NextHttp]_vars

-----------------------------------------------------------------------------
(* scrapers/base_scraper.py: _retry_with_backoff *)
(* Time is in seconds; app is the call of _retry_with_backoff(func). *)

\* BaseScraper.max_retries
MaxRetries == 3

\* BaseScraper.retry_delay, seconds
RetryDelay == 5

\* what a call of the wrapped function does: it returns a value or raises an
\* exception (a subclass of Exception)
FuncReturns == {"events", "empty"}
FuncRaises == {"ScrapingError", "ConnectionError"}

InitRetry ==
    /\ events = << >>
    /\ meta = << >>
    /\ now = 0
    /\ pc = "idle"
    /\ cur = NoCur
    /\ calls = << >>
    /\ ret = NoScrape
    /\ batch = NoBatch
    /\ stored_at = << >>
    /\ app = [fn |-> "_retry_with_backoff", at |-> "try", attempt |-> 0, clock |-> 0,
              last_error |-> NoneVal, outs |-> << >>, slept |-> << >>, res |-> NoneVal]

\* the call moves on to state a
RetryStep(a) ==
    /\ app' = a
    /\ UNCHANGED <<events, meta, now, pc, cur, calls, ret, batch, stored_at>>

\* variant: the same wait after every failed attempt
WaitTimeFlat(attempt) == RetryDelay

\* wait_time = self.retry_delay * (2 ** attempt)
WaitTime(attempt) == RetryDelay * 2^attempt

\* for attempt in range(self.max_retries): try: return func(*args, **kwargs);
\* the call takes d seconds and returns or raises out
RetryCall(d, out) ==
    /\ app.fn = "_retry_with_backoff"
    /\ app.at = "try"
    /\ app.attempt < MaxRetries
    /\ LET call == [out |-> out, from |-> app.clock, to |-> app.clock + d]
       IN  RetryStep([app EXCEPT
                        !.clock = app.clock + d,
                        !.outs = Append(app.outs, call),
                        !.at = IF out \in FuncReturns THEN "returned" ELSE "except",
                        !.res = IF out \in FuncReturns THEN out ELSE app.res,
                        !.last_error = IF out \in FuncRaises THEN out ELSE app.last_error])

\* except Exception: time.sleep(wait_time); then the next attempt of the loop,
\* or raise ScrapingError when the range is exhausted
RetrySleep ==
    /\ app.fn = "_retry_with_backoff"
    /\ app.at = "except"
    /\ RetryStep([app EXCEPT
                    !.clock = app.clock + WaitTime(app.attempt),
                    !.slept = Append(app.slept, WaitTime(app.attempt)),
                    !.attempt = app.attempt + 1,
                    !.at = IF app.attempt + 1 < MaxRetries THEN "try" ELSE "raised",
                    !.res = IF app.attempt + 1 < MaxRetries THEN app.res ELSE "ScrapingError"])

NextRetry ==
    \/ \E d \in 0..MaxLatency, out \in FuncReturns \cup FuncRaises : RetryCall(d, out)
    \/ RetrySleep

SpecRetry == InitRetry /\ [][NextRetry]_vars

\* the interpreter runs the call on: a started call is not suspended for ever
SpecRetryFair == SpecRetry /\ WF_vars(NextRetry)

-----------------------------------------------------------------------------
(* scrapers/browser_scraper.py: the pagination loops of the browser strategy *)
(* app is the call of _handle_infinite_scroll or _handle_load_more and the   *)
(* page it works on.                                                         *)

\* _handle_infinite_scroll: max_scrolls
MaxScrolls == 10

\* _handle_load_more: max_clicks
MaxClicks == 10

\* document.body.scrollHeight when the page has loaded, in screens
StartHeights == 0..2

\* what the page shows of the 'Load More' button: it is visible, it is hidden,
\* there is none (button.count() == 0), or the locator or the click raises
ButtonStates == {"visible", "hidden", "absent", "error"}

InitBrowser ==
    /\ events = << >>
    /\ meta = << >>
    /\ now = 0
    /\ pc = "idle"
    /\ cur = NoCur
    /\ calls = << >>
    /\ ret = NoScrape
    /\ batch = NoBatch
    /\ stored_at = << >>
    /\ app \in [fn : {"_handle_infinite_scroll", "_handle_load_more"}, at : {"loop"},
                i : {0}, height : StartHeights, previous_height : {0}, seen : {<< >>},
                scrolls : {0}, clicks : {0}, parsed : {0}]

\* the call moves on to state a
BrowserStep(a) ==
    /\ app' = a
    /\ UNCHANGED <<events, meta, now, pc, cur, calls, ret, batch, stored_at>>

\* variant: the scroll loop goes on when the height is unchanged
ScrollBreaksNever(current_height, previous_height) == FALSE

\* if current_height == previous_height: break
ScrollBreaks(current_height, previous_height) == current_height = previous_height

\* _handle_infinite_scroll, one pass of for _ in range(max_scrolls): the height
\* is read (page.evaluate may raise); unless it is unchanged the page is
\* scrolled to the bottom and grows by grow screens during the sleep
ScrollPass(grow, raises) ==
    /\ app.fn = "_handle_infinite_scroll"
    /\ app.at = "loop"
    /\ app.i < MaxScrolls
    /\ IF raises THEN BrowserStep([app EXCEPT !.at = "raised"])
       ELSE IF ScrollBreaks(app.height, app.previous_height)
            THEN BrowserStep([app EXCEPT !.seen = Append(app.seen, app.height),
                                         !.at = "parse"])
       ELSE BrowserStep([app EXCEPT
                           !.seen = Append(app.seen, app.height),
                           !.previous_height = app.height,
                           !.scrolls = app.scrolls + 1,
                           !.height = app.height + grow,
                           !.i = app.i + 1,
                           !.at = IF app.i + 1 < MaxScrolls THEN "loop" ELSE "parse"])

\* _handle_load_more, one pass of for _ in range(max_clicks): the loop breaks
\* when there is no visible button or when something raises, else the button
\* is clicked
ClickPass(button) ==
    /\ app.fn = "_handle_load_more"
    /\ app.at = "loop"
    /\ app.i < MaxClicks
    /\ IF button # "visible" THEN BrowserStep([app EXCEPT !.at = "parse"])
       ELSE BrowserStep([app EXCEPT
                           !.clicks = app.clicks + 1,
                           !.i = app.i + 1,
                           !.at = IF app.i + 1 < MaxClicks THEN "loop" ELSE "parse"])

\* return self._parse_page_events(page)
ParsePage ==
    /\ app.fn \in {"_handle_infinite_scroll", "_handle_load_more"}
    /\ app.at = "parse"
    /\ BrowserStep([app EXCEPT !.parsed = app.parsed + 1, !.at = "returned"])

NextBrowser ==
    \/ \E grow \in 0..1, raises \in BOOLEAN : ScrollPass(grow, raises)
    \/ \E button \in ButtonStates : ClickPass(button)
    \/ ParsePage

SpecBrowser == InitBrowser /\ [][NextBrowser]_vars

\* the interpreter runs the call on: a started call is not suspended for ever
SpecBrowserFair == SpecBrowser /\ WF_vars(NextBrowser)

-----------------------------------------------------------------------------
(* scrape_all.py: fetch_details_parallel *)
(* app is the call: the futures in submission order, the worker threads of *)
(* the executor and the main thread that collects the completed futures.    *)

\* max_workers of the call
MaxWorkers == 2

\* the number of items of the call
NumItems == 4

\* item k of a list with distinct ids; the key that is fetched is not the id
Item(k) == [id |-> 100 + k, url_or_id |-> 200 + k]

\* the item lists of the calls: distinct ids, and one list where the last item
\* repeats the id of the first
ItemLists ==
    {[k \in 1..NumItems |-> Item(k)],
     [k \in 1..NumItems |-> IF k = NumItems THEN [id |-> 101, url_or_id |-> 200 + k] ELSE Item(k)]}

\* what fetch_func does with a key: it returns details, it returns nothing
\* (None or an empty dict), or it raises
Fetched(key) == [kind |-> "data", of |-> key]
NoData(key) == [kind |-> "empty", of |-> key]
FetchFailed(key) == [kind |-> "raises", of |-> key]
FetchOutcomes(key) == {Fetched(key), NoData(key), FetchFailed(key)}

InitFetch ==
    /\ events = << >>
    /\ meta = << >>
    /\ now = 0
    /\ pc = "idle"
    /\ cur = NoCur
    /\ calls = << >>
    /\ ret = NoScrape
    /\ batch = NoBatch
    /\ stored_at = << >>
    /\ app \in [fn : {"fetch_details_parallel"}, at : {"pool"}, items : ItemLists,
                started : {0}, running : {{}}, out : {<< >>}, order : {<< >>},
                results : {<< >>}]

\* the call moves on to state a
FetchStep(a) ==
    /\ app' = a
    /\ UNCHANGED <<events, meta, now, pc, cur, calls, ret, batch, stored_at>>

\* results[key] = data
SetItem(results, key, data) ==
    [x \in DOMAIN results \cup {key} |-> IF x = key THEN data ELSE results[x]]

\* variant: the result is stored whatever it is
StoreAlways(results, item, out) == SetItem(results, item.id, out)

\* try: data = future.result(); if data: results[item['id']] = data
\* except Exception: pass
StoreResult(results, item, out) ==
    IF out.kind = "data" THEN SetItem(results, item.id, out) ELSE results

\* the futures whose call has ended
Completed == {k \in 1..Len(app.items) : k \in DOMAIN app.out}

\* the futures the main thread has taken from as_completed
Collected == {app.order[i] : i \in 1..Len(app.order)}

\* ThreadPoolExecutor: an idle worker thread takes the next submitted call
WorkerStarts ==
    /\ app.fn = "fetch_details_parallel"
    /\ app.at = "pool"
    /\ app.started < Len(app.items)
    /\ Cardinality(app.running) < MaxWorkers
    /\ FetchStep([app EXCEPT !.started = app.started + 1,
                             !.running = app.running \cup {app.started + 1}])

\* a running call of fetch_func ends with outcome out
WorkerEnds(k, out) ==
    /\ app.fn = "fetch_details_parallel"
    /\ app.at = "pool"
    /\ k \in app.running
    /\ FetchStep([app EXCEPT !.running = app.running \ {k},
                             !.out = SetItem(app.out, k, out)])

\* for future in as_completed(future_to_item): one completed future
Collect(k) ==
    /\ app.fn = "fetch_details_parallel"
    /\ app.at = "pool"
    /\ k \in Completed \ Collected
    /\ FetchStep([app EXCEPT !.order = Append(app.order, k),
                             !.results = StoreResult(app.results, app.items[k], app.out[k])])

\* every future was collected: the executor shuts down and results is returned
FetchReturn ==
    /\ app.fn = "fetch_details_parallel"
    /\ app.at = "pool"
    /\ Collected = 1..Len(app.items)
    /\ FetchStep([app EXCEPT !.at = "returned"])

NextFetch ==
    \/ WorkerStarts
    \/ \E k \in 1..NumItems : \E out \in FetchOutcomes(Item(k).url_or_id) : WorkerEnds(k, out)
    \/ \E k \in 1..NumItems : Collect(k)
    \/ FetchReturn

SpecFetch == InitFetch /\ [][NextFetch]_vars

-----------------------------------------------------------------------------
(* database/db_manager.py: the tables events, event_tags and event_themes *)
(* app is the database file (the committed tables), the connection of the  *)
(* call in progress with its uncommitted tables, and what a reader on a    *)
(* connection of its own has just read.                                    *)

\* a tag or theme that is not a str (sqlite3 cannot bind it)
ObjTag == <<ObjVal>>

TagA == <<"AI">>
TagB == <<"Web3">>

\* the tables after _init_database on a new file
EmptyDb == [events |-> << >>, event_tags |-> {}, event_themes |-> {}]

\* the connection of a call: closed, or open with the tables as the
\* transaction sees them and the position of save_event in its statements
NoConn == [open |-> FALSE, at |-> "closed", i |-> 0]

\* nothing was read yet
NoSeen == [read |-> FALSE]

\* the columns of the events table
EventRow(ev) == [f \in EventFields \ {"tags", "themes"} |-> ev[f]]

\* the events handed to save_event: normalized records, and records built by a
\* script with HackathonEvent(...); the lists of the second group make the
\* upsert, a tag insert, the themes loop or a theme insert fail
TableBase(url, date) == Normalize(Raw(TitleT, url, date, NoneVal, NoneVal, NoneVal), "MLH", 0)

TableLists ==
    { [tags |-> <<TagA>>, themes |-> ListOf(<<TagA>>), organizer |-> NoneVal],
      [tags |-> <<TagA, TagB>>, themes |-> StrOf(<<"a", "b">>), organizer |-> "acme"],
      [tags |-> <<TagB>>, themes |-> NoList, organizer |-> NoneVal],
      [tags |-> <<TagB>>, themes |-> ListOf(<<TagB, ObjTag>>), organizer |-> NoneVal],
      [tags |-> <<TagB, ObjTag>>, themes |-> ListOf(<<TagB>>), organizer |-> NoneVal],
      [tags |-> <<TagB>>, themes |-> ListOf(<<TagB>>), organizer |-> ObjVal] }

TableEvents ==
    { [TableBase(UrlA, Iso(DayZero - 5)) EXCEPT
          !.tags = l.tags, !.themes = l.themes, !.organizer = l.organizer] : l \in TableLists }
    \cup
    { [TableBase(UrlB, Iso(DayZero + 1)) EXCEPT !.tags = <<TagA>>, !.themes = ListOf(<<TagB>>)] }

\* the ids delete_event and get_event are called with
TableIds == {ev.id : ev \in TableEvents}

\* for x in value: the items, when the value can be iterated
Iterable(value) == value.kind \in {"list", "str"}
IterItems(value) ==
    IF value.kind = "str" THEN [k \in 1..Len(value.items) |-> <<value.items[k]>>]
    ELSE value.items

\* DatabaseManager.__init__ and _init_database
InitTables ==
    /\ events = << >>
    /\ meta = << >>
    /\ now = 0
    /\ pc = "idle"
    /\ cur = NoCur
    /\ calls = << >>
    /\ ret = NoScrape
    /\ batch = NoBatch
    /\ stored_at = << >>
    /\ app = [fn |-> "db", db |-> EmptyDb, conn |-> NoConn, result |-> NoneVal,
              whole |-> << >>, seen |-> NoSeen, raised_at |-> ""]

\* the database moves on to state a
TablesStep(a) ==
    /\ app' = a
    /\ UNCHANGED <<events, meta, now, pc, cur, calls, ret, batch, stored_at>>

\* variant: the exception leaves what the transaction wrote
RollbackNothing(db, work) == work

\* _get_connection, except Exception: conn.rollback(): the tables of the file
\* stay as they were committed
Rollback(db, work) == db

\* _get_connection: the exception of a statement rolls back, closes and is raised
StatementFails ==
    [app EXCEPT !.db = Rollback(app.db, app.conn.work), !.conn = NoConn, !.result = "raised",
                !.raised_at = app.conn.at]

\* the statement succeeded: the tables of the transaction are work and
\* save_event is at its statement at (number i of a loop)
StatementDone(work, at, i) ==
    [app EXCEPT !.conn = [app.conn EXCEPT !.work = work, !.at = at, !.i = i]]

\* save_event(event): with self._get_connection() as conn
SaveEventBegin(ev) ==
    /\ app.fn = "db"
    /\ ~app.conn.open
    /\ TablesStep([app EXCEPT !.conn = [open |-> TRUE, work |-> app.db, ev |-> ev,
                                        at |-> "upsert", i |-> 1],
                              !.result = NoneVal])

\* INSERT OR REPLACE INTO events
SaveEventUpsert ==
    /\ app.fn = "db"
    /\ app.conn.open
    /\ app.conn.at = "upsert"
    /\ LET ev == app.conn.ev
           work == app.conn.work
       IN  IF BindRaises(ev) THEN TablesStep(StatementFails)
           ELSE TablesStep(StatementDone(
                   [work EXCEPT !.events = InsertOrReplace(work.events, EventRow(ev))],
                   "delete_tags", 1))

\* DELETE FROM event_tags WHERE event_id = ?, then for tag in event.tags
SaveEventDeleteTags ==
    /\ app.fn = "db"
    /\ app.conn.open
    /\ app.conn.at = "delete_tags"
    /\ LET ev == app.conn.ev
           work == app.conn.work
       IN  TablesStep(StatementDone(
               [work EXCEPT !.event_tags = {r \in work.event_tags : r[1] # ev.id}],
               IF ev.tags = << >> THEN "delete_themes" ELSE "tag", 1))

\* INSERT OR IGNORE INTO event_tags (event_id, tag)
SaveEventInsertTag ==
    /\ app.fn = "db"
    /\ app.conn.open
    /\ app.conn.at = "tag"
    /\ LET ev == app.conn.ev
           work == app.conn.work
           i == app.conn.i
       IN  IF ev.tags[i] = ObjTag THEN TablesStep(StatementFails)
           ELSE TablesStep(StatementDone(
                   [work EXCEPT !.event_tags = work.event_tags \cup {<<ev.id, ev.tags[i]>>}],
                   IF i < Len(ev.tags) THEN "tag" ELSE "delete_themes", i + 1))

\* DELETE FROM event_themes WHERE event_id = ?, then for theme in event.themes
\* (a TypeError when themes cannot be iterated)
SaveEventDeleteThemes ==
    /\ app.fn = "db"
    /\ app.conn.open
    /\ app.conn.at = "delete_themes"
    /\ LET ev == app.conn.ev
           work == app.conn.work
       IN  IF ~Iterable(ev.themes) THEN TablesStep(StatementFails)
           ELSE TablesStep(StatementDone(
                   [work EXCEPT !.event_themes = {r \in work.event_themes : r[1] # ev.id}],
                   IF IterItems(ev.themes) = << >> THEN "commit" ELSE "theme", 1))

\* INSERT OR IGNORE INTO event_themes (event_id, theme)
SaveEventInsertTheme ==
    /\ app.fn = "db"
    /\ app.conn.open
    /\ app.conn.at = "theme"
    /\ LET ev == app.conn.ev
           work == app.conn.work
           i == app.conn.i
           themes == IterItems(ev.themes)
       IN  IF themes[i] = ObjTag THEN TablesStep(StatementFails)
           ELSE TablesStep(StatementDone(
                   [work EXCEPT !.event_themes = work.event_themes \cup {<<ev.id, themes[i]>>}],
                   IF i < Len(themes) THEN "theme" ELSE "commit", i + 1))

\* return True: _get_connection commits and closes
SaveEventCommit ==
    /\ app.fn = "db"
    /\ app.conn.open
    /\ app.conn.at = "commit"
    /\ LET ev == app.conn.ev
       IN  TablesStep([app EXCEPT
                         !.db = app.conn.work,
                         !.conn = NoConn,
                         !.result = "True",
                         !.whole = [x \in DOMAIN app.whole \cup {ev.id} |->
                                       IF x = ev.id THEN ev ELSE app.whole[x]]])

\* the ids of the rows of the events table
RowIds(tbl) == {tbl[k].id : k \in 1..Len(tbl)}

\* delete_event(event_id): DELETE FROM events WHERE id = ?, commit. The
\* connection does not execute PRAGMA foreign_keys = ON, so SQLite does not
\* enforce the foreign keys and ON DELETE CASCADE does nothing
DeleteEventTx(id) ==
    /\ app.fn = "db"
    /\ ~app.conn.open
    /\ LET tbl == DeleteEvent(app.db.events, id)
       IN  TablesStep([app EXCEPT
                         !.db = [app.db EXCEPT !.events = tbl],
                         !.result = IF Len(tbl) < Len(app.db.events) THEN "True" ELSE "False",
                         !.whole = [x \in DOMAIN app.whole \ {id} |-> app.whole[x]]])

\* delete_old_events(days): DELETE FROM events WHERE end_date < ? OR ..., commit
DeleteOldEventsTx(days) ==
    /\ app.fn = "db"
    /\ ~app.conn.open
    /\ LET tbl == DeleteOldEvents(app.db.events, days, now)
       IN  TablesStep([app EXCEPT
                         !.db = [app.db EXCEPT !.events = tbl],
                         !.result = "rowcount",
                         !.whole = [x \in DOMAIN app.whole \cap RowIds(tbl) |-> app.whole[x]]])

\* a reader on a connection of its own, get_event(event_id): the committed row
\* with its tags and themes (_row_to_event)
ReadEvent(id) ==
    /\ app.fn = "db"
    /\ id \in RowIds(app.db.events)
    /\ TablesStep([app EXCEPT !.seen =
           [read |-> TRUE,
            id |-> id,
            organizer |-> (CHOOSE r \in {app.db.events[k] : k \in 1..Len(app.db.events)} :
                              r.id = id).organizer,
            tags |-> {r[2] : r \in {x \in app.db.event_tags : x[1] = id}},
            themes |-> {r[2] : r \in {x \in app.db.event_themes : x[1] = id}}]])

NextTables ==
    \/ \E ev \in TableEvents : SaveEventBegin(ev)
    \/ SaveEventUpsert
    \/ SaveEventDeleteTags
    \/ SaveEventInsertTag
    \/ SaveEventDeleteThemes
    \/ SaveEventInsertTheme
    \/ SaveEventCommit
    \/ \E id \in TableIds : DeleteEventTx(id)
    \/ \E days \in StoreDays : DeleteOldEventsTx(days)
    \/ \E id \in TableIds : ReadEvent(id)

SpecTables == InitTables /\ [][NextTables]_vars

-----------------------------------------------------------------------------
(* The stale-source listing: python main.py stale --hours <h> *)

\* the lists the strategies of a site return
StaleOutcomes(site) == IF site = "mlh" THEN {"Exception", "one"} ELSE {"empty", "solo"}

\* the values of --hours
StaleHours == {TickHours, CacheTtlHours}

\* app.get_stale_sources(args.hours): the listing, with the time and the
\* metadata table it was computed from
StaleCommand(hours) ==
    /\ pc = "idle"
    /\ app' = [fn |-> "get_stale_sources", arg |-> hours, state |-> "returned",
               res |-> GetStaleSources(meta, hours, now), at |-> now, rows |-> meta]
    /\ UNCHANGED <<events, meta, now, pc, cur, calls, ret, batch, stored_at>>

NextStale ==
    \/ Tick
    \/ \E site \in {"mlh", "devpost"}, force \in BOOLEAN : ScrapeSiteCommand(site, force)
    \/ Start
    \/ \E out \in StaleOutcomes(cur.site) : TryMethod(out)
    \/ Finish
    \/ Return
    \/ \E hours \in StaleHours : StaleCommand(hours)

SpecStale == Init /\ [][NextStale]_vars

----------------------------------------------------------------------------
(* Properties *)

\* the scrape in progress has passed the cache gate and runs the strategy chain
InChain == pc \in {"chain", "finish"} \/ (pc = "returned" /\ calls # << >>)

\* api before http before browser
Rank(method) == CASE method = "api" -> 1 [] method = "http" -> 2 [] method = "browser" -> 3

\* the call returned a list with at least one item
Gave(call) == call.out \notin {"ScrapingError", "Exception", "empty"}

DeclaresApi(cfg) == cfg.method = "api" \/ cfg.api_hints \/ cfg.api_config

\* C1: a scrape that runs the strategy chain invokes the strategies in the fixed
\* order api, http, browser, each at most once and without skipping one, api
\* only when the site's configuration declares API support; no strategy is
\* invoked after the first one that returned a non-empty list, the chain goes
\* on while the lists are empty or the strategies raise, and the scrape returns
\* exactly the normalized items of that first non-empty list.
C1_Waterfall ==
    InChain =>
        LET cfg == Config(cur.site)
            n == Len(calls)
        IN  /\ n <= 3
            /\ \A k \in 1..n :
                  /\ Rank(calls[k].method) = k + (IF DeclaresApi(cfg) THEN 0 ELSE 1)
                  /\ k < n => ~Gave(calls[k])
            /\ pc \in {"finish", "returned"} =>
                  /\ n >= 1
                  /\ ~Gave(calls[n]) => calls[n].method = "browser"
            /\ (pc = "returned" /\ ret.kind = "returned") =>
                  ret.events = IF Gave(calls[n])
                               THEN [i \in 1..Len(Feed(calls[n].out)) |->
                                        Normalize(Feed(calls[n].out)[i], cfg.short_name, now)]
                               ELSE << >>

\* C1: a site that declares an API had its api and http strategies fail and
\* returned the single item its browser strategy found
C1_Witness ==
    /\ pc = "returned"
    /\ ret.kind = "returned"
    /\ Len(calls) = 3
    /\ calls[1].method = "api"
    /\ calls[3].out = "solo"
    /\ Len(ret.events) = 1

\* C2: when every strategy of the chain raised (ScrapingError or any other
\* Exception) or returned an empty list, each exception was caught, every
\* strategy of the sequence was tried, and the scrape returns the empty list
\* and raises nothing.
C2_Exhausted ==
    (InChain /\ \A k \in 1..Len(calls) : ~Gave(calls[k])) =>
        /\ pc \in {"finish", "returned"} =>
              Len(calls) = (IF DeclaresApi(Config(cur.site)) THEN 3 ELSE 2)
        /\ pc = "returned" => (ret.kind = "returned" /\ ret.events = << >>)

\* C2: the three strategies of a site ended with a ScrapingError, another
\* Exception and an empty list, and the scrape has returned
C2_Witness ==
    /\ pc = "returned"
    /\ Len(calls) = 3
    /\ calls[1].out = "ScrapingError"
    /\ calls[2].out = "Exception"
    /\ calls[3].out = "empty"
    /\ ret.kind = "returned"
    /\ ret.events = << >>

\* the running scrape_site leaves the cache gate of scrape() in this step
GateStep == pc = "start" /\ pc' # "start" /\ ~GetScraperRaises(cur.site)

\* the source of the running scrape
CurSource == Config(cur.site).short_name

\* a metadata row exists for the source and is younger than the TTL
YoungRow(source) ==
    source \in DOMAIN meta /\ now - meta[source].last_scraped < CacheTtlHours

\* C3: a scrape with force_refresh false whose source is cache-fresh returns
\* the cached events and calls no strategy; with force_refresh true, or with a
\* source that is not fresh, it runs the strategy chain; in particular, after a
\* scrape that stored at least one event, a non-forced scrape of the source
\* within the TTL calls no strategy.
C3_Gate ==
    [][GateStep =>
        /\ (~cur.force /\ YoungRow(CurSource)) =>
              (pc' = "returned" /\ ret'.kind = "returned" /\ ret'.cached /\ calls' = << >>)
        /\ (cur.force \/ ~YoungRow(CurSource)) => pc' = "chain"
        /\ (/\ ~cur.force
            /\ CurSource \in DOMAIN stored_at
            /\ now - stored_at[CurSource] < CacheTtlHours) =>
              (pc' = "returned" /\ calls' = << >>)]_vars

\* the rows of the table that belong to a source
RowsOf(source) == {i \in 1..Len(events) : events[i].source = source}

\* C4: a scrape answered from the cache returns every record stored for the
\* source, however many there are, and calls no strategy.
C4_CachedAll ==
    (pc = "returned" /\ ret.cached) =>
        /\ calls = << >>
        /\ Len(ret.events) = Cardinality(RowsOf(CurSource))
        /\ \A i \in RowsOf(CurSource) :
              \E k \in 1..Len(ret.events) : ret.events[k].id = events[i].id

\* C5: is_cache_fresh, as evaluated at the cache gate, is true exactly when a
\* metadata row exists for the source and now - last_scraped is strictly less
\* than the TTL; it is false without a row and when the age equals or exceeds
\* the TTL.
C5_Fresh ==
    [][(GateStep /\ ~cur.force) =>
        (cur'.fresh <=> (/\ CurSource \in DOMAIN meta
                         /\ now - meta[CurSource].last_scraped < CacheTtlHours))]_vars

\* C5: the gate found a source stale whose metadata row is exactly TTL hours old
C5_Witness ==
    /\ pc = "chain"
    /\ ~cur.force
    /\ ~cur.fresh
    /\ CurSource \in DOMAIN meta
    /\ now - meta[CurSource].last_scraped = CacheTtlHours

\* C6: every scrape that runs the strategy chain overwrites the metadata row of
\* its source before it returns: with the event count and success true when
\* events were obtained, with success true and count 0 when the result was
\* simply empty, and with success false and the error message when the
\* strategies failed.
C6_MetadataEveryScrape ==
    [][(pc = "finish" /\ pc' = "returned") =>
        /\ CurSource \in DOMAIN meta'
        /\ meta'[CurSource].last_scraped = now
        /\ ret'.events # << >> =>
              (meta'[CurSource].success /\ meta'[CurSource].event_count = Len(ret'.events))
        /\ (ret'.kind = "returned" /\ ret'.events = << >> /\ cur.error = NoneVal) =>
              (meta'[CurSource].success /\ meta'[CurSource].event_count = 0)
        /\ (ret'.kind = "returned" /\ ret'.events = << >> /\ cur.error # NoneVal) =>
              (~meta'[CurSource].success /\ meta'[CurSource].error_message # NoneVal)]_vars

\* C7: however often an event of one identity is saved, with identical or with
\* differing fields, the events table holds exactly one row of that identity:
\* no two rows share an id, and every event a scrape has just saved is there
\* once, with the fields of that last save.
C7_OneRowPerIdentity ==
    /\ \A i, j \in 1..Len(events) : events[i].id = events[j].id => i = j
    /\ (pc = "returned" /\ ret.kind = "returned" /\ ~ret.cached) =>
          \A k \in 1..Len(ret.events) :
              /\ Cardinality({i \in 1..Len(events) : events[i].id = ret.events[k].id}) = 1
              /\ \E i \in 1..Len(events) : events[i] = ret.events[k]

\* C7: a scrape has saved an event with organizer and image over the stored row
\* of the same identity: the table did not grow
C7_Witness ==
    /\ pc = "returned"
    /\ ret.kind = "returned"
    /\ ~ret.cached
    /\ Len(ret.events) = 1
    /\ ret.events[1].organizer = "acme"
    /\ ret.stored = 0
    /\ Len(events) >= 1

\* C8: payloads of one source with the same title whose urls differ only in
\* utm_* query parameters or a trailing '?' or '&' get the same identity and
\* are stored as one record: no two rows have the same source, canonical URL
\* and title.
C8_TrackingInvariant ==
    \A i, j \in 1..Len(events) :
        (/\ events[i].source = events[j].source
         /\ events[i].url = events[j].url
         /\ events[i].title = events[j].title) => i = j

\* the optional fields of a payload, with the column each one fills
OptionalFields == {[raw |-> "organizer", col |-> "organizer"], [raw |-> "image", col |-> "image_url"]}

\* C9: when an event that is already stored is normalized and saved again, an
\* optional field (organizer, image_url) that its payload does not supply keeps
\* the stored value; a field is overwritten only by a value the payload
\* supplies.
C9_PartialUpdate ==
    [][\A s \in ScriptSaves :
        (ScriptSave(s) /\ ~NormalizeRaises(s.raw) /\ ~BindRaises(Normalize(s.raw, s.source, now))) =>
            LET ev == Normalize(s.raw, s.source, now)
            IN  \A i \in 1..Len(events) :
                    events[i].id = ev.id =>
                        \E j \in 1..Len(events') :
                            /\ events'[j].id = ev.id
                            /\ \A f \in OptionalFields :
                                  events'[j][f.col] = IF s.raw[f.raw] = NoneVal
                                                      THEN events[i][f.col]
                                                      ELSE ev[f.col]]_vars

\* the source names of the configured sites
Sources == {"MLH", "Devpost", "DoraHacks", "Ghost"}

\* C10: scrape_all runs to completion: no exception of a site ends it, its
\* loop only moves forward through the site keys, and it returns a map with an
\* entry for every requested site key; a site whose scraper creation or scrape raises is
\* recorded with the failed outcome 0 and the loop goes on; while one site is
\* scraped, the stored events, the metadata and the recorded counts of the
\* other sites stay as they are.
C10_Isolation ==
    [][/\ batch'.state # "aborted"
       /\ (batch.state = "running" /\ batch'.state = "running") =>
             (batch'.keys = batch.keys /\ batch'.i >= batch.i)
       /\ (pc = "returned" /\ pc' = "idle" /\ batch.state = "running") =>
             /\ DOMAIN batch'.results = DOMAIN batch.results \cup {cur.site}
             /\ batch'.results[cur.site] = (IF ret.kind = "returned" THEN Len(ret.events) ELSE 0)
             /\ \A k \in DOMAIN batch.results \ {cur.site} :
                   batch'.results[k] = batch.results[k]
             /\ batch'.i = batch.i + 1
       /\ (batch.state = "running" /\ batch'.state = "done") =>
             DOMAIN batch.results = {batch.keys[k] : k \in 1..Len(batch.keys)}
       /\ pc \in {"start", "chain", "finish"} =>
             /\ batch'.results = batch.results
             /\ \A src \in Sources \ {CurSource} :
                   /\ WhereSource(events', src) = WhereSource(events, src)
                   /\ (src \in DOMAIN meta') = (src \in DOMAIN meta)
                   /\ src \in DOMAIN meta => meta'[src] = meta[src]]_vars

\* C10: a batch is done in which the scraper of the second site could not be
\* created and the third site, scraped after it, returned its event
C10_Witness ==
    /\ batch.state = "done"
    /\ batch.keys = <<"mlh", "ghost", "devpost">>
    /\ batch.results["ghost"] = 0
    /\ batch.results["devpost"] = 1

\* C11: no record with an empty or missing title, or an empty or missing url,
\* is persisted by a scrape: every stored row has a non-empty title and a
\* non-empty url.
C11_TitleAndUrl ==
    \A i \in 1..Len(events) : events[i].title # << >> /\ events[i].url # << >>

\* C12: normalize returns a record and raises no exception for every raw
\* payload that has a title and a url, whatever the type or content of its
\* other fields.
C12_NeverRaises ==
    (/\ app.fn = "normalize"
     /\ app.state # "called"
     /\ app.arg.raw.title # << >>
     /\ app.arg.raw.url # << >>) => app.state = "returned"

\* a _determine_status call has returned
StatusReturned == app.fn = "_determine_status" /\ app.state = "returned"

\* C13: for every start_date, end_date and today, the derived status is
\* 'unknown' exactly when start is absent or unparseable; otherwise it is
\* 'upcoming' when today < start, 'ongoing' when start <= today <= end, and
\* 'ended' in every other case; the result is always one of upcoming, ongoing,
\* ended, unknown.
C13_Status ==
    StatusReturned =>
        LET a == app.arg
            r == app.res
        IN  /\ r \in {"upcoming", "ongoing", "ended", "unknown"}
            /\ (r = "unknown") <=> (a.start.fmt # "iso")
            /\ a.start.fmt = "iso" =>
                  /\ (r = "upcoming") <=> (a.today < a.start.day)
                  /\ a.end.fmt = "iso" =>
                        /\ (r = "ongoing") <=>
                              (a.start.day <= a.today /\ a.today <= a.end.day)
                        /\ (r = "ended") <=>
                              ~(a.today < a.start.day)
                                 /\ ~(a.start.day <= a.today /\ a.today <= a.end.day)

\* C13: an event that started before today and ends after today was found
\* ongoing
C13_Witness ==
    /\ StatusReturned
    /\ app.arg.start.fmt = "iso"
    /\ app.arg.end.fmt = "iso"
    /\ app.arg.start.day < app.arg.today
    /\ app.arg.today < app.arg.end.day
    /\ app.res = "ongoing"

\* C14: when only one of start_date and end_date is known, the missing one is
\* taken as equal to the known one: with only start known, end is start; with
\* only end known, start is end, so an event whose only known date is a past end
\* date is 'ended' and one whose only known date is a future end date is
\* 'upcoming'.
C14_OneDateKnown ==
    StatusReturned =>
        LET a == app.arg
            known == IF a.start.fmt = "iso" THEN a.start.day ELSE a.end.day
            expected == IF a.today < known THEN "upcoming"
                        ELSE IF a.today = known THEN "ongoing"
                        ELSE "ended"
        IN  /\ (a.start.fmt = "iso" /\ a.end.fmt = "none") => app.res = expected
            /\ (a.start.fmt = "none" /\ a.end.fmt = "iso") => app.res = expected

\* the status derived from the dates of a record at time t
DerivedStatus(ev, t) ==
    DetermineStatus(DateText(ev.start_date), DateText(ev.end_date), Today(t))

\* C15: every record returned by a storage read (get_event, query_events with
\* its status filter, the cached-records path of scrape) carries the status
\* derived from its dates and the date at read time, not the status stored at
\* normalize time; a status filter matches on that derived status.
C15_ReadTimeStatus ==
    [][/\ (pc = "start" /\ pc' = "returned" /\ ret'.cached) =>
             \A k \in 1..Len(ret'.events) :
                 ret'.events[k].status = DerivedStatus(ret'.events[k], now)
       /\ (app' # app /\ app'.fn \in {"get_event", "query_events"}) =>
             \A k \in 1..Len(app'.res) :
                 app'.res[k].status = DerivedStatus(app'.res[k], now)
       /\ (app' # app /\ app'.fn = "query_events") =>
             \A i \in 1..Len(events) :
                 (DerivedStatus(events[i], now) = app'.arg) <=>
                     (\E k \in 1..Len(app'.res) : app'.res[k].id = events[i].id)]_vars

\* C16: upserts keyed by identity are commutative and idempotent: two
\* save_event calls for the same identity that carry different field values
\* leave the same stored record whichever order they are applied in, and
\* applying the same upsert twice leaves the same state as applying it once.
C16_CommutativeUpsert ==
    [][\A s1, s2 \in ScriptSaves :
        LET e1 == Normalize(s1.raw, s1.source, now)
            e2 == Normalize(s2.raw, s2.source, now)
        IN  (/\ ScriptSave(s1)
             /\ ~NormalizeRaises(s1.raw) /\ ~BindRaises(e1)
             /\ ~NormalizeRaises(s2.raw) /\ ~BindRaises(e2)
             /\ e1.id = e2.id) =>
                /\ GetEvent(SaveEvent(events', e2), e1.id)
                      = GetEvent(SaveEvent(SaveEvent(events, e2), e1), e1.id)
                /\ SaveEvent(events', e1) = events']_vars

\* the identities stored in a table
IdsOf(tbl) == {tbl[i].id : i \in 1..Len(tbl)}

\* C17: no scrape operation (scrape, scrape_site, scrape_all, save_event,
\* save_events), successful or failed, removes a stored record: across them the
\* set of stored identities only grows; an identity disappears only in a
\* delete_event or delete_old_events call.
C17_OnlyGrows ==
    [][/\ (pc # "idle" \/ pc' # "idle" \/ batch.state # "off" \/ batch'.state # "off"
            \/ \E s \in ScriptSaves : ScriptSave(s)) =>
             IdsOf(events) \subseteq IdsOf(events')
       /\ ~(IdsOf(events) \subseteq IdsOf(events')) =>
             /\ app'.fn \in {"delete_event", "delete_old_events"}
             /\ pc = "idle" /\ pc' = "idle"]_vars

\* C17: a scrape that failed while saving has returned, and the store still
\* holds the records of two identities
C17_Witness ==
    /\ pc = "returned"
    /\ ret.kind = "raised"
    /\ calls # << >>
    /\ Cardinality(IdsOf(events)) >= 2

\* prize texts and their values, in tenths
PrizeExamples ==
    { [text |-> <<"$", "1", "0", ",", "0", "0", "0">>, tenths |-> 10 * 10000],
      [text |-> <<"$", "1", ".", "5", "M">>, tenths |-> 10 * 1500000],
      [text |-> <<"$", "2", ".", "5", "m">>, tenths |-> 10 * 2500000],
      [text |-> <<"1", "0", "k">>, tenths |-> 10 * 10000],
      [text |-> <<"$", "5", "K">>, tenths |-> 10 * 5000],
      [text |-> <<"$", "5", "0", "0">>, tenths |-> 10 * 500] }

\* C18: _normalize_prize maps "$10,000" to 10000.0 with display "$10K", maps
\* "$1.5M"-style inputs to 1500000.0 (a k or m suffix next to a digit
\* multiplies by 1000 or 1000000), and maps "TBD" or an empty value to 0.0 with
\* display None; for every input the numeric value is a non-negative number.
C18_Prize ==
    (app.fn = "_normalize_prize" /\ app.state = "returned") =>
        /\ app.res.tenths >= 0
        /\ \A x \in PrizeExamples :
              (~app.arg.none /\ app.arg.text = x.text) => app.res.tenths = x.tenths
        /\ (~app.arg.none /\ app.arg.text = <<"$", "1", "0", ",", "0", "0", "0">>) =>
              (~app.res.display.none /\ app.res.display.text = <<"$", "10", "K">>)
        /\ (app.arg.none \/ app.arg.text \in {<< >>, <<"T", "B", "D">>}) =>
              (app.res.tenths = 0 /\ app.res.display.none)

DistinctAndShort(list) ==
    /\ \A i, j \in 1..Len(list) : Lower(list[i]) = Lower(list[j]) => i = j
    /\ Len(list) <= 10

\* the position at which the entry is first seen in the raw list
FirstSeen(entry, raw) ==
    CHOOSE k \in 1..Len(raw) :
        /\ Lower(DisplayTag(raw[k])) = Lower(entry)
        /\ \A j \in 1..(k - 1) : Lower(DisplayTag(raw[j])) # Lower(entry)

\* C20: in every record produced by normalize, each of the lists tags and
\* themes contains no two entries that are equal ignoring case and has at most
\* 10 entries, and the entries appear in the first-seen order of the raw input.
C20_TagLists ==
    (app.fn = "normalize" /\ app.state = "returned") =>
        LET raw == Get(app.arg.raw, "tags", ListOf(<< >>))
            given == IF raw.kind = "str" THEN SplitTags(raw.items, << >>) ELSE raw.items
            tags == app.res.tags
        IN  /\ DistinctAndShort(tags)
            /\ DistinctAndShort(app.res.themes.items)
            /\ \A i \in 1..Len(tags) :
                  \E k \in 1..Len(given) : Lower(DisplayTag(given[k])) = Lower(tags[i])
            /\ \A i, j \in 1..Len(tags) :
                  i < j => FirstSeen(tags[i], given) < FirstSeen(tags[j], given)

\* C21: a year-less date text is resolved against now: it takes the current
\* year and rolls forward one year exactly when the resulting calendar date is
\* before today's date, so a year-less date equal to today stays in the current
\* year; the output is always a date or None.
C21_YearLess ==
    (app.fn = "_parse_date" /\ app.state = "returned") =>
        LET today == Today(app.arg.now)
            this_year == (today \div 10000) * 10000 + app.arg.date.day
        IN  /\ app.res = NullDate \/ app.res \div 10000 \in {2026, 2027}
            /\ (app.arg.date.fmt = "monthday" /\ app.arg.date.day \notin {229}) =>
                  app.res = IF this_year < today THEN this_year + 10000 ELSE this_year

\* the HTTP strategy has sent at least two requests
TwoRequests == app.fn = "_scrape_with_http" /\ Len(app.sent) = 2

\* C22: between any two consecutive outbound requests of one scraper at least
\* request_delay elapses, on every request path, the API-endpoint probing of
\* the HTTP strategy included.
C22_RateLimit == TwoRequests => app.sent[2] - app.sent[1] >= RequestDelay

\* _retry_with_backoff is over: it returned or raised
RetryDone == app.at \in {"returned", "raised"}

\* the calls of the wrapped function so far, their results and the waits
RetrySafe ==
    /\ Len(app.outs) <= MaxRetries
    /\ \A i \in 1..(Len(app.outs) - 1) :
          /\ app.outs[i].out \in FuncRaises
          /\ app.outs[i + 1].from - app.outs[i].to = RetryDelay * 2^(i - 1)
    /\ app.at = "returned" =>
          /\ app.outs[Len(app.outs)].out \in FuncReturns
          /\ app.res = app.outs[Len(app.outs)].out
    /\ app.at = "raised" =>
          /\ Len(app.outs) = MaxRetries
          /\ \A i \in 1..MaxRetries : app.outs[i].out \in FuncRaises
          /\ app.res = "ScrapingError"

\* C23: _retry_with_backoff calls the wrapped function at most max_retries
\* times; it returns the result of the first call that does not raise and makes
\* no further call after it; after failed attempt k (from 0) it waits
\* retry_delay * 2^k before the next attempt; when every attempt raises it
\* terminates by raising ScrapingError.
C23_RetryWithBackoff == [](app.fn = "_retry_with_backoff" => RetrySafe) /\ <>RetryDone

\* every attempt raised and the call ended with ScrapingError after the waits
\* of 5, 10 and 20 seconds
C23_Witness ==
    /\ app.fn = "_retry_with_backoff"
    /\ app.at = "raised"
    /\ Len(app.outs) = MaxRetries
    /\ app.slept = <<RetryDelay, 2 * RetryDelay, 4 * RetryDelay>>

\* the pagination call is over
BrowserDone == app.at \in {"returned", "raised"}

\* the height read before read number i of the scroll loop
HeightBefore(i) == IF i = 1 THEN 0 ELSE app.seen[i - 1]

\* the passes of the pagination loops so far
BrowserSafe ==
    /\ app.scrolls <= MaxScrolls
    /\ app.clicks <= MaxClicks
    /\ app.parsed <= 1
    /\ app.at = "returned" <=> app.parsed = 1
    /\ \A i \in 1..Len(app.seen) :
          IF app.seen[i] = HeightBefore(i)
          THEN i = Len(app.seen) /\ app.scrolls = i - 1 /\ app.at \in {"parse", "returned"}
          ELSE app.scrolls >= i

\* C24: the pagination loops of the browser strategy always terminate:
\* _handle_infinite_scroll performs at most max_scrolls scroll steps even when
\* the page height grows on every step and stops earlier as soon as the height
\* is unchanged; _handle_load_more performs at most max_clicks clicks; in both
\* cases the page is then parsed exactly once.
C24_PaginationEnds ==
    [](app.fn \in {"_handle_infinite_scroll", "_handle_load_more"} => BrowserSafe)
    /\ <>BrowserDone

\* the height grew on every one of the max_scrolls steps and the page was
\* parsed once
C24_Witness ==
    /\ app.fn = "_handle_infinite_scroll"
    /\ app.at = "returned"
    /\ app.scrolls = MaxScrolls
    /\ \A i \in 1..Len(app.seen) : app.seen[i] > HeightBefore(i)
    /\ app.parsed = 1

\* the items of the call have distinct ids
DistinctIds ==
    \A i, j \in 1..Len(app.items) : app.items[i].id = app.items[j].id => i = j

\* the collected futures whose fetch returned details
Useful == {k \in Collected : app.out[k].kind = "data"}

\* C25: fetch_details_parallel never has more than max_workers fetch calls
\* running at once, and for items with distinct ids its map holds exactly the
\* ids whose fetch returned non-empty data, each mapped to its own result,
\* whatever the order of completion; an exception or an empty result of one
\* fetch neither removes nor alters another item's entry and does not abort
\* the call.
C25_ParallelFetch ==
    app.fn = "fetch_details_parallel" =>
        /\ Cardinality(app.running) <= MaxWorkers
        /\ DistinctIds =>
              /\ DOMAIN app.results = {app.items[k].id : k \in Useful}
              /\ \A k \in Useful : app.results[app.items[k].id] = Fetched(app.items[k].url_or_id)
              /\ app.at = "returned" => Collected = 1..Len(app.items)

\* the call returned although one fetch raised and one returned nothing, the
\* futures completed out of submission order, and the others' entries are there
C25_Witness ==
    /\ app.fn = "fetch_details_parallel"
    /\ app.at = "returned"
    /\ DistinctIds
    /\ app.out[1].kind = "raises"
    /\ app.out[2].kind = "data"
    /\ app.out[3].kind = "empty"
    /\ app.order[1] = 2
    /\ Item(2).id \in DOMAIN app.results
    /\ Item(1).id \notin DOMAIN app.results
    /\ Item(3).id \notin DOMAIN app.results

\* no strategy invoked so far in the scrape in progress has returned events
Barren ==
    /\ pc \in {"chain", "finish"}
    /\ \A i \in 1..Len(calls) : calls[i].out \in Failures \/ Feed(calls[i].out) = << >>

\* C26: a scrape in which every strategy fails or returns empty changes
\* neither the stored events nor the freshness of the source: every stored
\* record is unchanged and a source that was not fresh before is not fresh
\* after, so the next non-forced scrape attempts the strategies again.
C26_FailedScrapeFrame ==
    [][Barren =>
        /\ events' = events
        /\ meta' = meta
        /\ \A site \in Sites :
              LET source == Config(site).short_name
              IN  ~IsCacheFresh(meta, source, CacheTtlHours, now)
                     => ~IsCacheFresh(meta', source, CacheTtlHours, now')]_vars

\* a scrape of a source with stored events and a stale metadata row has ended
\* without events from any strategy
C26_Witness ==
    /\ pc = "returned"
    /\ calls # << >>
    /\ \A i \in 1..Len(calls) : calls[i].out \in Failures \/ Feed(calls[i].out) = << >>
    /\ ret.kind = "returned"
    /\ ret.events = << >>
    /\ CurSource \in DOMAIN meta
    /\ ~IsCacheFresh(meta, CurSource, CacheTtlHours, now)
    /\ \E i \in 1..Len(events) : events[i].source = CurSource

\* the tags and themes a complete save_event of ev writes
TagsOf(ev) == {ev.tags[k] : k \in 1..Len(ev.tags)}
ThemesOf(ev) == {IterItems(ev.themes)[k] : k \in 1..Len(IterItems(ev.themes))}

\* what the reader saw of an event is what one complete save_event wrote
SeenWhole ==
    app.seen.read =>
        \E ev \in TableEvents :
            /\ ev.id = app.seen.id
            /\ ev.organizer = app.seen.organizer
            /\ TagsOf(ev) = app.seen.tags
            /\ ThemesOf(ev) = app.seen.themes

\* the committed row, tags and themes of every stored event are those of the
\* last save_event of the id that returned
StoredWhole ==
    \A k \in 1..Len(app.db.events) :
        LET row == app.db.events[k]
        IN  /\ row.id \in DOMAIN app.whole
            /\ row = EventRow(app.whole[row.id])
            /\ {r[2] : r \in {x \in app.db.event_tags : x[1] = row.id}} = TagsOf(app.whole[row.id])
            /\ {r[2] : r \in {x \in app.db.event_themes : x[1] = row.id}}
                  = ThemesOf(app.whole[row.id])

C30_ReferentialIntegrity ==
    (app.fn = "db" /\ ~app.conn.open) =>
        \A r \in app.db.event_tags \cup app.db.event_themes : r[1] \in RowIds(app.db.events)

\* C28: the three status derivations agree: for every stored start_date and
\* end_date (each a YYYY-MM-DD string, absent, or unparseable) and every today,
\* _determine_status, recalculate_status and the derivation in
\* get_all_events_cached yield the same status.
C28_StatusAgree ==
    (app.fn \in {"recalculate_status", "get_all_events_cached"} /\ app.state = "returned") =>
        app.res = DetermineStatus(app.arg.start, app.arg.end, app.arg.today)

\* C29: the stale-source listing and the freshness gate agree: for every
\* source the system may scrape (one that was never scraped included) and
\* every max_age_hours h, the source is listed by get_stale_sources(h) exactly
\* when is_cache_fresh(source, h) is false.
C29_StaleAgrees ==
    (app.fn = "get_stale_sources" /\ app.state = "returned") =>
        \A site \in Sites :
            LET source == Config(site).short_name
            IN  source \in app.res <=> ~IsCacheFresh(app.rows, source, app.arg, app.at)

====
